---- MODULE Spec2Model ----
(***************************************************************************)
(* The in-memory knowledge graph store of crates/goose_kb/src/lib.rs       *)
(* (InMemoryKnowledgeStore): a node table, an edge table and two adjacency *)
(* indices, each behind its own mutex, used by concurrent callers.         *)
(*                                                                         *)
(* Every caller is a process with a program counter. A step is either the  *)
(* acquisition of one mutex (it blocks while another caller holds it) or   *)
(* the work done under the mutexes held, up to the next acquisition, with  *)
(* the releases the code performs there. Spec runs the callers one         *)
(* operation at a time; the other specifications interleave them.          *)
(***************************************************************************)
EXTENDS Integers, FiniteSets, Sequences, Bags, TLC

VARIABLES
    nodes,          \* node table: node id -> Node
    edges,          \* edge table: edge id -> Edge
    adj_outgoing,   \* node id -> set of edge ids
    adj_incoming,   \* node id -> set of edge ids
    holder,         \* mutex -> the caller holding it, or NoOne
    pc,             \* caller -> position in the operation it runs
    call,           \* caller -> the operation invoked and its arguments
    loc,            \* caller -> the local variables of the operation
    ret,            \* caller -> the value the last operation returned
    pre,            \* Spec: the four tables as they were when the last operation was invoked
    clock,          \* Utc::now(), as a logical clock
    calls           \* the number of invocations so far

store == <<nodes, edges, adj_outgoing, adj_incoming>>
vars == <<nodes, edges, adj_outgoing, adj_incoming, holder, pc, call, loc, ret, pre, clock, calls>>

----------------------------------------------------------------------------
(* Bounds *)

NumCallers == 2     \* concurrent callers
MaxCalls == 4       \* invocations in one run of a concurrent specification
MaxSeqCalls == 4    \* invocations in one run of Spec

Callers == 1..NumCallers
NoOne == 0

NodeIds == {"n1", "n2"}
EdgeIds == {"e1", "e2"}
Locks == {"nodes", "edges", "adj_outgoing", "adj_incoming"}

----------------------------------------------------------------------------
(* serde_json::Value: a tagged value; an object is a map from keys to values *)

Null == [kind |-> "null", val |-> <<>>]
Num(n) == [kind |-> "number", val |-> <<n>>]
Obj(m) == [kind |-> "object", val |-> m]
EmptyMap == [k \in {} |-> Null]
IsObject(v) == v.kind = "object"

\* faulty variant: a patch value that is an object is merged into a stored
\* value that is an object, instead of replacing it
MergeInto_Deep(current, update) ==
    [k \in (DOMAIN current) \cup (DOMAIN update) |->
        IF k \notin DOMAIN update THEN current[k]
        ELSE IF k \in DOMAIN current /\ IsObject(current[k]) /\ IsObject(update[k])
             THEN Obj([j \in (DOMAIN current[k].val) \cup (DOMAIN update[k].val) |->
                        IF j \in DOMAIN update[k].val
                        THEN update[k].val[j] ELSE current[k].val[j]])
             ELSE update[k]]

\* serde_json::Map::insert for every entry of the patch, in the loop of
\* update_node_properties / update_edge_properties
MergeInto(current, update) ==
    [k \in (DOMAIN current) \cup (DOMAIN update) |->
        IF k \in DOMAIN update THEN update[k] ELSE current[k]]

----------------------------------------------------------------------------
(* HashMap / HashSet operations the store uses *)

MapInsert(m, k, v) == [x \in (DOMAIN m) \cup {k} |-> IF x = k THEN v ELSE m[x]]
MapRemove(m, k) == [x \in (DOMAIN m) \ {k} |-> m[x]]

\* adj.entry(node_id).or_default()
EntryOrDefault(adj, n) == IF n \in DOMAIN adj THEN adj ELSE MapInsert(adj, n, {})
\* adj.entry(node_id).or_default().insert(edge_id)
IndexInsert(adj, n, e) == MapInsert(adj, n, EntryOrDefault(adj, n)[n] \cup {e})
\* faulty variant: the id is left in the entry
IndexRemove_Forgets(adj, n, e) == adj
\* if let Some(set) = adj.get_mut(node_id) { set.remove(edge_id); }
IndexRemove(adj, n, e) == IF n \in DOMAIN adj THEN MapInsert(adj, n, adj[n] \ {e}) ELSE adj
\* adj.get(node_id) cloned into the result set, nothing when absent
IndexGet(adj, n) == IF n \in DOMAIN adj THEN adj[n] ELSE {}

----------------------------------------------------------------------------
(* Results: Result<T, String>; the failure kind is read off the message *)

Ok(v) == [kind |-> "Ok", val |-> <<v>>]
OkUnit == [kind |-> "Ok", val |-> <<>>]
Err(k) == [kind |-> "Err", val |-> <<k>>]
Conflict == Err("Conflict")             \* "... already exists"
NotFound == Err("NotFound")             \* "... not found ..."
InvalidInput == Err("InvalidInput")     \* "... not a JSON object" / "must be a JSON object"
Unsupported == Err("Unsupported")       \* "Cypher queries are not supported ..."
NoRet == [kind |-> "None", val |-> <<>>]

----------------------------------------------------------------------------
(* Inputs *)

NodeTypes == {"Tool", "Concept"}

\* Node::new(id, node_type, properties) at time t
NewNode(id, node_type, properties, t) ==
    [id |-> id, node_type |-> node_type, labels |-> <<node_type>>,
     properties |-> properties, created_at |-> t, updated_at |-> t]

\* an Edge value; the id is a public field, so a caller may reuse one
NewEdge(id, source, target, edge_type, properties, t) ==
    [id |-> id, source_node_id |-> source, target_node_id |-> target,
     edge_type |-> edge_type, properties |-> properties,
     created_at |-> t, updated_at |-> t]

\* the nodes a caller may pass to add_node at time t: per id, a Tool with an
\* empty object document and a Concept with a document that is no object
SampleNodes(t) ==
    {NewNode(id, "Tool", Obj(EmptyMap), t) : id \in NodeIds}
        \cup {NewNode(id, "Concept", Null, t) : id \in NodeIds}

\* the edges a caller may pass to add_edge at time t: every id between every
\* pair of node ids; a self-loop is a RelatedTo edge with a Null document
\* (what the extractor builds for a relation without properties), any other
\* edge a UsesTool edge with an empty object document
SampleEdges(t) ==
    {NewEdge(id, s, d, IF s = d THEN "RelatedTo" ELSE "UsesTool",
             IF s = d THEN Null ELSE Obj(EmptyMap), t) :
        id \in EdgeIds, s \in NodeIds, d \in NodeIds}

NoDirection == "(none)"
Directions == {NoDirection, "outgoing", "incoming", "both", "Outgoing"}

Patches == {Obj([k \in {"a"} |-> Num(1)]), Obj([k \in {"b"} |-> Num(2)]),
            Obj([k \in {"a"} |-> Null]), Num(1)}

\* query_cypher(query, params): a query text or an empty one, without or
\* with parameters (an Option of a map)
Queries == {"MATCH (n) RETURN n", ""}
Params == {<<>>, <<[k \in {"id"} |-> Num(1)]>>}

Requests(t) ==
    {[op |-> "add_node", node |-> n] : n \in SampleNodes(t)}
    \cup {[op |-> "add_edge", edge |-> e] : e \in SampleEdges(t)}
    \cup {[op |-> "get_node_by_id", node_id |-> n] : n \in NodeIds}
    \cup {[op |-> "get_edges_by_node_id", node_id |-> n, direction |-> d] :
            n \in NodeIds, d \in Directions}
    \cup {[op |-> "get_nodes_by_type_and_property", node_type |-> ty,
           property_key |-> k, property_value |-> v] :
            ty \in NodeTypes, k \in {"a"}, v \in {Num(1), Null}}
    \cup {[op |-> "query_cypher", query |-> q, params |-> ps] :
            q \in Queries, ps \in Params}
    \cup {[op |-> "update_node_properties", node_id |-> n, properties_to_update |-> u] :
            n \in NodeIds, u \in Patches}
    \cup {[op |-> "update_edge_properties", edge_id |-> e, properties_to_update |-> u] :
            e \in EdgeIds, u \in Patches}
    \cup {[op |-> "delete_node", node_id |-> n] : n \in NodeIds}
    \cup {[op |-> "delete_edge", edge_id |-> e] : e \in EdgeIds}

\* the first position of each operation
Entry(op) ==
    CASE op = "add_node" -> "an_lock_nodes"
      [] op = "add_edge" -> "ae_lock_edges"
      [] op = "get_node_by_id" -> "gn_lock_nodes"
      [] op = "get_edges_by_node_id" -> "ge_outgoing"
      [] op = "get_nodes_by_type_and_property" -> "gp_lock_nodes"
      [] op = "query_cypher" -> "qc"
      [] op = "update_node_properties" -> "un_lock_nodes"
      [] op = "update_edge_properties" -> "ue_lock_edges"
      [] op = "delete_node" -> "dn_lock_outgoing"
      [] op = "delete_edge" -> "de_lock_edges"
      [] op = "extract_from_text" -> "ex_complete"
      [] op = "map_str_to_nodetype" -> "map_nodetype"
      [] op = "map_str_to_edgetype" -> "map_edgetype"

----------------------------------------------------------------------------
(* State after InMemoryKnowledgeStore::new() *)

NoCall == [op |-> "idle"]
NoEdge == NewEdge("", "", "", "", Null, 0)
\* the locals of the store's operations, and those of extract_from_text: the
\* number of completions awaited, the last completion, the response text,
\* the parsed data, nodes_map, all_edges and the number of uuids drawn
NoLocals ==
    [todo |-> {}, edge_id |-> "", edge |-> NoEdge, ids |-> {},
     completions |-> 0, completion |-> Null, response |-> Null, data |-> Null,
     nodes_map |-> <<>>, all_edges |-> <<>>, uuids |-> 0]
EmptyTable == [x \in {} |-> {}]

Init ==
    /\ nodes = EmptyTable
    /\ edges = EmptyTable
    /\ adj_outgoing = EmptyTable
    /\ adj_incoming = EmptyTable
    /\ holder = [l \in Locks |-> NoOne]
    /\ pc = [p \in Callers |-> "idle"]
    /\ call = [p \in Callers |-> NoCall]
    /\ loc = [p \in Callers |-> NoLocals]
    /\ ret = [p \in Callers |-> NoRet]
    /\ pre = <<EmptyTable, EmptyTable, EmptyTable, EmptyTable>>
    /\ clock = 0
    /\ calls = 0

----------------------------------------------------------------------------
(* Mutexes, positions and returns *)

\* self.<table>.lock().unwrap(): blocks while another caller holds the mutex
Acquire(p, l) == holder[l] = NoOne /\ holder' = [holder EXCEPT ![l] = p]
\* the guards dropped by this step
Release(ls) == holder' = [l \in Locks |-> IF l \in ls THEN NoOne ELSE holder[l]]
Goto(p, l) == pc' = [pc EXCEPT ![p] = l]
Return(p, r) == pc' = [pc EXCEPT ![p] = "done"] /\ ret' = [ret EXCEPT ![p] = r]
SetLoc(p, f, v) == loc' = [loc EXCEPT ![p] = [loc[p] EXCEPT ![f] = v]]

AllIdle == \A p \in Callers : pc[p] = "idle"

\* a caller invokes one of the requests: the arguments are built at the time
\* clock' of the invocation
Invoke(p, requests) ==
    /\ pc[p] = "idle"
    /\ calls' = calls + 1
    /\ \E r \in requests :
        /\ call' = [call EXCEPT ![p] = r]
        /\ pc' = [pc EXCEPT ![p] = Entry(r.op)]
    /\ loc' = [loc EXCEPT ![p] = NoLocals]
    /\ UNCHANGED <<store, holder, ret>>

\* the caller takes the result and is ready for its next invocation
Respond(p) ==
    /\ pc[p] = "done"
    /\ pc' = [pc EXCEPT ![p] = "idle"]
    /\ call' = [call EXCEPT ![p] = NoCall]
    /\ ret' = [ret EXCEPT ![p] = NoRet]
    /\ loc' = [loc EXCEPT ![p] = NoLocals]
    /\ UNCHANGED <<store, holder, pre, clock, calls>>

----------------------------------------------------------------------------
(* add_node, lib.rs 219-228 *)

AN_LockNodes(p) ==
    /\ pc[p] = "an_lock_nodes"
    /\ Acquire(p, "nodes")
    /\ Goto(p, "an_insert")
    /\ UNCHANGED <<store, call, loc, ret, pre, clock, calls>>

\* faulty variant: no check for a stored id: the node is overwritten
AN_Insert_Overwrites(p) ==
    /\ pc[p] = "an_insert"
    /\ nodes' = MapInsert(nodes, call[p].node.id, call[p].node)
    /\ Goto(p, "an_lock_outgoing")
    /\ UNCHANGED <<edges, adj_outgoing, adj_incoming, holder, call, loc, ret, pre, clock, calls>>

AN_Insert(p) ==
    /\ pc[p] = "an_insert"
    /\ LET node == call[p].node IN
        IF node.id \in DOMAIN nodes
        THEN /\ Return(p, Conflict)
             /\ Release({"nodes"})
             /\ UNCHANGED nodes
        ELSE /\ nodes' = MapInsert(nodes, node.id, node)
             /\ Goto(p, "an_lock_outgoing")
             /\ UNCHANGED <<holder, ret>>
    /\ UNCHANGED <<edges, adj_outgoing, adj_incoming, call, loc, pre, clock, calls>>

AN_LockOutgoing(p) ==
    /\ pc[p] = "an_lock_outgoing"
    /\ Acquire(p, "adj_outgoing")
    /\ Goto(p, "an_outgoing")
    /\ UNCHANGED <<store, call, loc, ret, pre, clock, calls>>

AN_Outgoing(p) ==
    /\ pc[p] = "an_outgoing"
    /\ adj_outgoing' = EntryOrDefault(adj_outgoing, call[p].node.id)
    /\ Release({"adj_outgoing"})
    /\ Goto(p, "an_lock_incoming")
    /\ UNCHANGED <<nodes, edges, adj_incoming, call, loc, ret, pre, clock, calls>>

AN_LockIncoming(p) ==
    /\ pc[p] = "an_lock_incoming"
    /\ Acquire(p, "adj_incoming")
    /\ Goto(p, "an_incoming")
    /\ UNCHANGED <<store, call, loc, ret, pre, clock, calls>>

AN_Incoming(p) ==
    /\ pc[p] = "an_incoming"
    /\ adj_incoming' = EntryOrDefault(adj_incoming, call[p].node.id)
    /\ Release({"adj_incoming", "nodes"})
    /\ Return(p, OkUnit)
    /\ UNCHANGED <<nodes, edges, adj_outgoing, call, loc, pre, clock, calls>>

----------------------------------------------------------------------------
(* add_edge, lib.rs 230-249 *)

\* faulty variant: add_edge goes on without the edges mutex
AE_LockEdges_NoWait(p) ==
    /\ pc[p] = "ae_lock_edges"
    /\ Goto(p, "ae_check")
    /\ UNCHANGED <<store, holder, call, loc, ret, pre, clock, calls>>

AE_LockEdges(p) ==
    /\ pc[p] = "ae_lock_edges"
    /\ Acquire(p, "edges")
    /\ Goto(p, "ae_check")
    /\ UNCHANGED <<store, call, loc, ret, pre, clock, calls>>

\* faulty variant: no check for a stored id
AE_Check_NoConflict(p) ==
    /\ pc[p] = "ae_check"
    /\ Goto(p, "ae_lock_nodes")
    /\ UNCHANGED <<store, holder, call, loc, ret, pre, clock, calls>>

AE_Check(p) ==
    /\ pc[p] = "ae_check"
    /\ IF call[p].edge.id \in DOMAIN edges
       THEN Return(p, Conflict) /\ Release({"edges"})
       ELSE Goto(p, "ae_lock_nodes") /\ UNCHANGED <<holder, ret>>
    /\ UNCHANGED <<store, call, loc, pre, clock, calls>>

AE_LockNodes(p) ==
    /\ pc[p] = "ae_lock_nodes"
    /\ Acquire(p, "nodes")
    /\ Goto(p, "ae_insert")
    /\ UNCHANGED <<store, call, loc, ret, pre, clock, calls>>

\* faulty variant: only the source is looked up
AE_Insert_SourceOnly(p) ==
    /\ pc[p] = "ae_insert"
    /\ LET edge == call[p].edge IN
        IF edge.source_node_id \notin DOMAIN nodes
        THEN /\ Return(p, NotFound)
             /\ Release({"nodes", "edges"})
             /\ UNCHANGED edges
        ELSE /\ Release({"nodes"})
             /\ edges' = MapInsert(edges, edge.id, edge)
             /\ Goto(p, "ae_lock_outgoing")
             /\ UNCHANGED ret
    /\ UNCHANGED <<nodes, adj_outgoing, adj_incoming, call, loc, pre, clock, calls>>

\* faulty variant: the edges guard is dropped with the nodes guard, before the
\* indices are updated
AE_Insert_DropsEdges(p) ==
    /\ pc[p] = "ae_insert"
    /\ LET edge == call[p].edge IN
        IF edge.source_node_id \notin DOMAIN nodes \/ edge.target_node_id \notin DOMAIN nodes
        THEN /\ Return(p, NotFound)
             /\ UNCHANGED edges
        ELSE /\ edges' = MapInsert(edges, edge.id, edge)
             /\ Goto(p, "ae_lock_outgoing")
             /\ UNCHANGED ret
    /\ Release({"nodes", "edges"})
    /\ UNCHANGED <<nodes, adj_outgoing, adj_incoming, call, loc, pre, clock, calls>>

\* both endpoints are looked up under the nodes mutex, which is dropped
\* before the edge is inserted
AE_Insert(p) ==
    /\ pc[p] = "ae_insert"
    /\ LET edge == call[p].edge IN
        IF edge.source_node_id \notin DOMAIN nodes \/ edge.target_node_id \notin DOMAIN nodes
        THEN /\ Return(p, NotFound)
             /\ Release({"nodes", "edges"})
             /\ UNCHANGED edges
        ELSE /\ Release({"nodes"})
             /\ edges' = MapInsert(edges, edge.id, edge)
             /\ Goto(p, "ae_lock_outgoing")
             /\ UNCHANGED ret
    /\ UNCHANGED <<nodes, adj_outgoing, adj_incoming, call, loc, pre, clock, calls>>

AE_LockOutgoing(p) ==
    /\ pc[p] = "ae_lock_outgoing"
    /\ Acquire(p, "adj_outgoing")
    /\ Goto(p, "ae_outgoing")
    /\ UNCHANGED <<store, call, loc, ret, pre, clock, calls>>

AE_Outgoing(p) ==
    /\ pc[p] = "ae_outgoing"
    /\ adj_outgoing' = IndexInsert(adj_outgoing, call[p].edge.source_node_id, call[p].edge.id)
    /\ Release({"adj_outgoing"})
    /\ Goto(p, "ae_lock_incoming")
    /\ UNCHANGED <<nodes, edges, adj_incoming, call, loc, ret, pre, clock, calls>>

AE_LockIncoming(p) ==
    /\ pc[p] = "ae_lock_incoming"
    /\ Acquire(p, "adj_incoming")
    /\ Goto(p, "ae_incoming")
    /\ UNCHANGED <<store, call, loc, ret, pre, clock, calls>>

\* faulty variant: the edge id is not recorded under the target
AE_Incoming_Skips(p) ==
    /\ pc[p] = "ae_incoming"
    /\ Release({"adj_incoming", "edges"})
    /\ Return(p, OkUnit)
    /\ UNCHANGED <<store, call, loc, pre, clock, calls>>

AE_Incoming(p) ==
    /\ pc[p] = "ae_incoming"
    /\ adj_incoming' = IndexInsert(adj_incoming, call[p].edge.target_node_id, call[p].edge.id)
    /\ Release({"adj_incoming", "edges"})
    /\ Return(p, OkUnit)
    /\ UNCHANGED <<nodes, edges, adj_outgoing, call, loc, pre, clock, calls>>

----------------------------------------------------------------------------
(* delete_edge, lib.rs 361-374: invoked by a caller, or by delete_node for *)
(* each collected edge id (lib.rs 349, self.delete_edge(&edge_id).await?)  *)

\* the edge id delete_edge was given
DeleteEdgeArg(p) == IF call[p].op = "delete_edge" THEN call[p].edge_id ELSE loc[p].edge_id

\* delete_edge returns r: to the caller, or into the loop of delete_node,
\* where the ? operator returns a failure from delete_node at once
DeleteEdgeReturn(p, r) ==
    IF call[p].op = "delete_node" /\ r.kind = "Ok"
    THEN Goto(p, "dn_loop") /\ UNCHANGED ret
    ELSE Return(p, r)

DE_LockEdges(p) ==
    /\ pc[p] = "de_lock_edges"
    /\ Acquire(p, "edges")
    /\ Goto(p, "de_remove")
    /\ UNCHANGED <<store, call, loc, ret, pre, clock, calls>>

DE_Remove(p) ==
    /\ pc[p] = "de_remove"
    /\ LET edge_id == DeleteEdgeArg(p) IN
        IF edge_id \in DOMAIN edges
        THEN /\ edges' = MapRemove(edges, edge_id)
             /\ SetLoc(p, "edge", edges[edge_id])
             /\ Goto(p, "de_lock_outgoing")
             /\ UNCHANGED <<holder, ret>>
        ELSE /\ DeleteEdgeReturn(p, NotFound)
             /\ Release({"edges"})
             /\ UNCHANGED <<edges, loc>>
    /\ UNCHANGED <<nodes, adj_outgoing, adj_incoming, call, pre, clock, calls>>

DE_LockOutgoing(p) ==
    /\ pc[p] = "de_lock_outgoing"
    /\ Acquire(p, "adj_outgoing")
    /\ Goto(p, "de_outgoing")
    /\ UNCHANGED <<store, call, loc, ret, pre, clock, calls>>

\* faulty variant: the whole outgoing entry of the source is emptied
DE_Outgoing_Clears(p) ==
    /\ pc[p] = "de_outgoing"
    /\ LET source == loc[p].edge.source_node_id IN
        adj_outgoing' = IF source \in DOMAIN adj_outgoing
                        THEN [adj_outgoing EXCEPT ![source] = {}]
                        ELSE adj_outgoing
    /\ Release({"adj_outgoing"})
    /\ Goto(p, "de_lock_incoming")
    /\ UNCHANGED <<nodes, edges, adj_incoming, call, loc, ret, pre, clock, calls>>

DE_Outgoing(p) ==
    /\ pc[p] = "de_outgoing"
    /\ adj_outgoing' = IndexRemove(adj_outgoing, loc[p].edge.source_node_id, DeleteEdgeArg(p))
    /\ Release({"adj_outgoing"})
    /\ Goto(p, "de_lock_incoming")
    /\ UNCHANGED <<nodes, edges, adj_incoming, call, loc, ret, pre, clock, calls>>

DE_LockIncoming(p) ==
    /\ pc[p] = "de_lock_incoming"
    /\ Acquire(p, "adj_incoming")
    /\ Goto(p, "de_incoming")
    /\ UNCHANGED <<store, call, loc, ret, pre, clock, calls>>

\* faulty variant: the guard of the edge table outlives delete_edge
DE_Incoming_KeepsEdges(p) ==
    /\ pc[p] = "de_incoming"
    /\ adj_incoming' = IndexRemove(adj_incoming, loc[p].edge.target_node_id, DeleteEdgeArg(p))
    /\ Release({"adj_incoming"})
    /\ DeleteEdgeReturn(p, OkUnit)
    /\ UNCHANGED <<nodes, edges, adj_outgoing, call, loc, pre, clock, calls>>

DE_Incoming(p) ==
    /\ pc[p] = "de_incoming"
    /\ adj_incoming' = IndexRemove(adj_incoming, loc[p].edge.target_node_id, DeleteEdgeArg(p))
    /\ Release({"adj_incoming", "edges"})
    /\ DeleteEdgeReturn(p, OkUnit)
    /\ UNCHANGED <<nodes, edges, adj_outgoing, call, loc, pre, clock, calls>>

----------------------------------------------------------------------------
(* delete_node, lib.rs 337-359 *)

DN_LockOutgoing(p) ==
    /\ pc[p] = "dn_lock_outgoing"
    /\ Acquire(p, "adj_outgoing")
    /\ Goto(p, "dn_lock_incoming")
    /\ UNCHANGED <<store, call, loc, ret, pre, clock, calls>>

DN_LockIncoming(p) ==
    /\ pc[p] = "dn_lock_incoming"
    /\ Acquire(p, "adj_incoming")
    /\ Goto(p, "dn_collect")
    /\ UNCHANGED <<store, call, loc, ret, pre, clock, calls>>

\* faulty variant: only the outgoing entry is collected
CollectEdges_OutgoingOnly(out, inc, n) == IndexGet(out, n)
\* the ids of both entries of the node, as one set (lib.rs 342-345)
CollectEdges(out, inc, n) == IndexGet(out, n) \cup IndexGet(inc, n)

\* faulty variant: the two guards are not scoped to the block and stay held
DN_Collect_KeepsGuards(p) ==
    /\ pc[p] = "dn_collect"
    /\ SetLoc(p, "todo", CollectEdges(adj_outgoing, adj_incoming, call[p].node_id))
    /\ Goto(p, "dn_loop")
    /\ UNCHANGED <<store, holder, call, ret, pre, clock, calls>>

DN_Collect(p) ==
    /\ pc[p] = "dn_collect"
    /\ SetLoc(p, "todo", CollectEdges(adj_outgoing, adj_incoming, call[p].node_id))
    /\ Release({"adj_incoming", "adj_outgoing"})
    /\ Goto(p, "dn_loop")
    /\ UNCHANGED <<store, call, ret, pre, clock, calls>>

\* for edge_id in edges_to_remove: the Vec comes from a HashSet, in any order
DN_Loop(p) ==
    /\ pc[p] = "dn_loop"
    /\ IF loc[p].todo = {}
       THEN Goto(p, "dn_lock_nodes") /\ UNCHANGED loc
       ELSE \E e \in loc[p].todo :
                /\ loc' = [loc EXCEPT ![p] = [loc[p] EXCEPT !.todo = @ \ {e}, !.edge_id = e]]
                /\ Goto(p, "de_lock_edges")
    /\ UNCHANGED <<store, holder, call, ret, pre, clock, calls>>

DN_LockNodes(p) ==
    /\ pc[p] = "dn_lock_nodes"
    /\ Acquire(p, "nodes")
    /\ Goto(p, "dn_remove")
    /\ UNCHANGED <<store, call, loc, ret, pre, clock, calls>>

\* faulty variant: a node that is not stored is taken as removed
DN_Remove_AbsentOk(p) ==
    /\ pc[p] = "dn_remove"
    /\ Release({"nodes"})
    /\ nodes' = MapRemove(nodes, call[p].node_id)
    /\ Goto(p, "dn_lock_outgoing2")
    /\ UNCHANGED <<edges, adj_outgoing, adj_incoming, call, loc, ret, pre, clock, calls>>

DN_Remove(p) ==
    /\ pc[p] = "dn_remove"
    /\ Release({"nodes"})
    /\ IF call[p].node_id \in DOMAIN nodes
       THEN /\ nodes' = MapRemove(nodes, call[p].node_id)
            /\ Goto(p, "dn_lock_outgoing2")
            /\ UNCHANGED ret
       ELSE /\ Return(p, NotFound)
            /\ UNCHANGED nodes
    /\ UNCHANGED <<edges, adj_outgoing, adj_incoming, call, loc, pre, clock, calls>>

DN_LockOutgoing2(p) ==
    /\ pc[p] = "dn_lock_outgoing2"
    /\ Acquire(p, "adj_outgoing")
    /\ Goto(p, "dn_outgoing")
    /\ UNCHANGED <<store, call, loc, ret, pre, clock, calls>>

DN_Outgoing(p) ==
    /\ pc[p] = "dn_outgoing"
    /\ adj_outgoing' = MapRemove(adj_outgoing, call[p].node_id)
    /\ Release({"adj_outgoing"})
    /\ Goto(p, "dn_lock_incoming2")
    /\ UNCHANGED <<nodes, edges, adj_incoming, call, loc, ret, pre, clock, calls>>

DN_LockIncoming2(p) ==
    /\ pc[p] = "dn_lock_incoming2"
    /\ Acquire(p, "adj_incoming")
    /\ Goto(p, "dn_incoming")
    /\ UNCHANGED <<store, call, loc, ret, pre, clock, calls>>

DN_Incoming(p) ==
    /\ pc[p] = "dn_incoming"
    /\ adj_incoming' = MapRemove(adj_incoming, call[p].node_id)
    /\ Release({"adj_incoming"})
    /\ Return(p, OkUnit)
    /\ UNCHANGED <<nodes, edges, adj_outgoing, call, loc, pre, clock, calls>>

----------------------------------------------------------------------------
(* get_node_by_id, lib.rs 251-253 *)

Some(v) == <<v>>
None == <<>>
\* map.get(key).cloned()
MapGet(m, k) == IF k \in DOMAIN m THEN Some(m[k]) ELSE None

GN_LockNodes(p) ==
    /\ pc[p] = "gn_lock_nodes"
    /\ Acquire(p, "nodes")
    /\ Goto(p, "gn_get")
    /\ UNCHANGED <<store, call, loc, ret, pre, clock, calls>>

\* faulty variant: an id that is not stored is reported as a failure
GN_Get_AbsentFails(p) ==
    /\ pc[p] = "gn_get"
    /\ Return(p, IF call[p].node_id \in DOMAIN nodes
                 THEN Ok(Some(nodes[call[p].node_id])) ELSE NotFound)
    /\ Release({"nodes"})
    /\ UNCHANGED <<store, call, loc, pre, clock, calls>>

GN_Get(p) ==
    /\ pc[p] = "gn_get"
    /\ Return(p, Ok(MapGet(nodes, call[p].node_id)))
    /\ Release({"nodes"})
    /\ UNCHANGED <<store, call, loc, pre, clock, calls>>

----------------------------------------------------------------------------
(* get_edges_by_node_id, lib.rs 255-273 *)

\* direction.as_deref().unwrap_or("both")
\* faulty variant: the direction is compared without regard to letter case
DirStr_IgnoresCase(direction) ==
    CASE direction = NoDirection -> "both"
      [] direction = "Outgoing" -> "outgoing"
      [] OTHER -> direction

DirStr(direction) == IF direction = NoDirection THEN "both" ELSE direction

GE_Outgoing(p) ==
    /\ pc[p] = "ge_outgoing"
    /\ IF DirStr(call[p].direction) \in {"outgoing", "both"}
       THEN Acquire(p, "adj_outgoing") /\ Goto(p, "ge_outgoing_get")
       ELSE Goto(p, "ge_incoming") /\ UNCHANGED holder
    /\ UNCHANGED <<store, call, loc, ret, pre, clock, calls>>

\* faulty variant: the guard of adj_outgoing is kept to the end of the call
GE_OutgoingGet_KeepsGuard(p) ==
    /\ pc[p] = "ge_outgoing_get"
    /\ SetLoc(p, "ids", loc[p].ids \cup IndexGet(adj_outgoing, call[p].node_id))
    /\ Goto(p, "ge_incoming")
    /\ UNCHANGED <<store, holder, call, ret, pre, clock, calls>>

GE_OutgoingGet(p) ==
    /\ pc[p] = "ge_outgoing_get"
    /\ SetLoc(p, "ids", loc[p].ids \cup IndexGet(adj_outgoing, call[p].node_id))
    /\ Release({"adj_outgoing"})
    /\ Goto(p, "ge_incoming")
    /\ UNCHANGED <<store, call, ret, pre, clock, calls>>

GE_Incoming(p) ==
    /\ pc[p] = "ge_incoming"
    /\ IF DirStr(call[p].direction) \in {"incoming", "both"}
       THEN Acquire(p, "adj_incoming") /\ Goto(p, "ge_incoming_get")
       ELSE Goto(p, "ge_lock_edges") /\ UNCHANGED holder
    /\ UNCHANGED <<store, call, loc, ret, pre, clock, calls>>

GE_IncomingGet(p) ==
    /\ pc[p] = "ge_incoming_get"
    /\ SetLoc(p, "ids", loc[p].ids \cup IndexGet(adj_incoming, call[p].node_id))
    /\ Release({"adj_incoming"})
    /\ Goto(p, "ge_lock_edges")
    /\ UNCHANGED <<store, call, ret, pre, clock, calls>>

GE_LockEdges(p) ==
    /\ pc[p] = "ge_lock_edges"
    /\ Acquire(p, "edges")
    /\ Goto(p, "ge_collect")
    /\ UNCHANGED <<store, call, loc, ret, pre, clock, calls>>

\* result_edge_ids.iter().filter_map(|id| edges_map.get(id).cloned()).collect():
\* the Vec holds one edge per collected id still in the edge table; the
\* order is that of the HashSet's iteration, so the Vec is a bag of edges
LookupEdges(ids, edges_map) ==
    LET found == ids \cap DOMAIN edges_map IN
        [edge \in {edges_map[id] : id \in found} |->
            Cardinality({id \in found : edges_map[id] = edge})]

\* faulty variant: the ids read from the two indices are looked up one index
\* after the other, without the HashSet that makes each id occur once
GE_Collect_NoDedup(p) ==
    /\ pc[p] = "ge_collect"
    /\ LET d == DirStr(call[p].direction)
           out == IF d \in {"outgoing", "both"}
                  THEN IndexGet(adj_outgoing, call[p].node_id) ELSE {}
           inc == IF d \in {"incoming", "both"}
                  THEN IndexGet(adj_incoming, call[p].node_id) ELSE {}
       IN  Return(p, Ok(LookupEdges(out, edges) (+) LookupEdges(inc, edges)))
    /\ Release({"edges"})
    /\ UNCHANGED <<store, call, loc, pre, clock, calls>>

GE_Collect(p) ==
    /\ pc[p] = "ge_collect"
    /\ Return(p, Ok(LookupEdges(loc[p].ids, edges)))
    /\ Release({"edges"})
    /\ UNCHANGED <<store, call, loc, pre, clock, calls>>

----------------------------------------------------------------------------
(* get_nodes_by_type_and_property, lib.rs 275-288 *)

\* faulty variant: indexing, which yields null for a missing key and for a
\* value that is no object
ValueGet_Index(v, k) == IF IsObject(v) /\ k \in DOMAIN v.val THEN Some(v.val[k]) ELSE Some(Null)

\* Value::get(key): the member of an object, None for a missing key and for
\* a value that is no object
ValueGet(v, k) == IF IsObject(v) /\ k \in DOMAIN v.val THEN Some(v.val[k]) ELSE None

FilterNodes(nodes_map, node_type, key, value) ==
    {nodes_map[id] : id \in
        {i \in DOMAIN nodes_map :
            /\ nodes_map[i].node_type = node_type
            /\ ValueGet(nodes_map[i].properties, key) = Some(value)}}

GP_LockNodes(p) ==
    /\ pc[p] = "gp_lock_nodes"
    /\ Acquire(p, "nodes")
    /\ Goto(p, "gp_filter")
    /\ UNCHANGED <<store, call, loc, ret, pre, clock, calls>>

GP_Filter(p) ==
    /\ pc[p] = "gp_filter"
    /\ Return(p, Ok(FilterNodes(nodes, call[p].node_type, call[p].property_key,
                                call[p].property_value)))
    /\ Release({"nodes"})
    /\ UNCHANGED <<store, call, loc, pre, clock, calls>>

----------------------------------------------------------------------------
(* query_cypher, lib.rs 290-293 *)

\* faulty variant: an empty query is answered with an empty result
QC_AcceptsEmpty(p) ==
    /\ pc[p] = "qc"
    /\ Return(p, IF call[p].query = "" THEN Ok({}) ELSE Unsupported)
    /\ UNCHANGED <<store, holder, call, loc, pre, clock, calls>>

QC(p) ==
    /\ pc[p] = "qc"
    /\ Return(p, Unsupported)
    /\ UNCHANGED <<store, holder, call, loc, pre, clock, calls>>

----------------------------------------------------------------------------
(* update_node_properties, lib.rs 295-314; update_edge_properties, 316-335 *)

\* faulty variant: updated_at is set before the documents are examined
UpdateProperties_StampsFirst(entity, update, now) ==
    IF IsObject(update) /\ IsObject(entity.properties)
    THEN [result |-> OkUnit,
          entity |-> [entity EXCEPT
                !.properties = Obj(MergeInto(entity.properties.val, update.val)),
                !.updated_at = now]]
    ELSE [result |-> InvalidInput, entity |-> [entity EXCEPT !.updated_at = now]]

\* the outcome of the update of one stored entity: the result and the entity
\* faulty variant: a successful update stamps created_at as well
UpdateProperties_StampsCreated(entity, update, now) ==
    IF IsObject(update)
    THEN IF IsObject(entity.properties)
         THEN [result |-> OkUnit,
               entity |-> [entity EXCEPT
                    !.properties = Obj(MergeInto(entity.properties.val, update.val)),
                    !.created_at = now,
                    !.updated_at = now]]
         ELSE [result |-> InvalidInput, entity |-> entity]
    ELSE [result |-> InvalidInput, entity |-> entity]

UpdateProperties(entity, update, now) ==
    IF IsObject(update)
    THEN IF IsObject(entity.properties)
         THEN [result |-> OkUnit,
               entity |-> [entity EXCEPT
                    !.properties = Obj(MergeInto(entity.properties.val, update.val)),
                    !.updated_at = now]]
         ELSE [result |-> InvalidInput, entity |-> entity]
    ELSE [result |-> InvalidInput, entity |-> entity]

UN_LockNodes(p) ==
    /\ pc[p] = "un_lock_nodes"
    /\ Acquire(p, "nodes")
    /\ Goto(p, "un_update")
    /\ UNCHANGED <<store, call, loc, ret, pre, clock, calls>>

\* faulty variant: the patch is merged into the node as it was when the
\* callers were invoked, not as it is under the mutex
UN_Update_Stale(p) ==
    /\ pc[p] = "un_update"
    /\ LET id == call[p].node_id IN
        IF id \in DOMAIN nodes
        THEN LET read == IF id \in DOMAIN pre[1] THEN pre[1][id] ELSE nodes[id]
                 u == UpdateProperties(read, call[p].properties_to_update, clock) IN
                /\ nodes' = MapInsert(nodes, id, u.entity)
                /\ Return(p, u.result)
        ELSE /\ Return(p, NotFound)
             /\ UNCHANGED nodes
    /\ Release({"nodes"})
    /\ UNCHANGED <<edges, adj_outgoing, adj_incoming, call, loc, pre, clock, calls>>

UN_Update(p) ==
    /\ pc[p] = "un_update"
    /\ LET id == call[p].node_id IN
        IF id \in DOMAIN nodes
        THEN LET u == UpdateProperties(nodes[id], call[p].properties_to_update, clock) IN
                /\ nodes' = MapInsert(nodes, id, u.entity)
                /\ Return(p, u.result)
        ELSE /\ Return(p, NotFound)
             /\ UNCHANGED nodes
    /\ Release({"nodes"})
    /\ UNCHANGED <<edges, adj_outgoing, adj_incoming, call, loc, pre, clock, calls>>

UE_LockEdges(p) ==
    /\ pc[p] = "ue_lock_edges"
    /\ Acquire(p, "edges")
    /\ Goto(p, "ue_update")
    /\ UNCHANGED <<store, call, loc, ret, pre, clock, calls>>

UE_Update(p) ==
    /\ pc[p] = "ue_update"
    /\ LET id == call[p].edge_id IN
        IF id \in DOMAIN edges
        THEN LET u == UpdateProperties(edges[id], call[p].properties_to_update, clock) IN
                /\ edges' = MapInsert(edges, id, u.entity)
                /\ Return(p, u.result)
        ELSE /\ Return(p, NotFound)
             /\ UNCHANGED edges
    /\ Release({"edges"})
    /\ UNCHANGED <<nodes, adj_outgoing, adj_incoming, call, loc, pre, clock, calls>>

----------------------------------------------------------------------------
(* Strings as sequences of characters; the type mappings of extraction.rs *)

UpperCase == <<"A", "B", "C", "D", "E", "F", "G", "H", "I", "J", "K", "L", "M",
               "N", "O", "P", "Q", "R", "S", "T", "U", "V", "W", "X", "Y", "Z">>
LowerCase == <<"a", "b", "c", "d", "e", "f", "g", "h", "i", "j", "k", "l", "m",
               "n", "o", "p", "q", "r", "s", "t", "u", "v", "w", "x", "y", "z">>

\* char::to_lowercase on the characters above; any other character is kept
LowerChar(c) ==
    IF \E i \in DOMAIN UpperCase : UpperCase[i] = c
    THEN LowerCase[CHOOSE i \in DOMAIN UpperCase : UpperCase[i] = c]
    ELSE c

\* str::to_lowercase
ToLowercase(s) == [i \in DOMAIN s |-> LowerChar(s[i])]

\* the arms of a match on a string: the type of the arm that names the
\* string, or the type of the arm _
Match(arms, s, default) ==
    IF \E arm \in arms : arm[1] = s
    THEN (CHOOSE arm \in arms : arm[1] = s)[2]
    ELSE default

\* the arms of map_str_to_nodetype, extraction.rs 70-76
NodeTypeArms ==
    {<<<<"p", "e", "r", "s", "o", "n">>, "ExternalEntity">>,
     <<<<"p", "e", "o", "p", "l", "e">>, "ExternalEntity">>,
     <<<<"o", "r", "g", "a", "n", "i", "z", "a", "t", "i", "o", "n">>, "ExternalEntity">>,
     <<<<"o", "r", "g">>, "ExternalEntity">>,
     <<<<"l", "o", "c", "a", "t", "i", "o", "n">>, "ExternalEntity">>,
     <<<<"p", "l", "a", "c", "e">>, "ExternalEntity">>,
     <<<<"f", "i", "l", "e">>, "File">>,
     <<<<"t", "o", "o", "l">>, "Tool">>,
     <<<<"c", "o", "n", "c", "e", "p", "t">>, "Concept">>,
     <<<<"t", "a", "s", "k">>, "Plan">>}

\* the arms of map_str_to_edgetype, extraction.rs 83-87
EdgeTypeArms ==
    {<<<<"u", "s", "e", "s">>, "UsesTool">>,
     <<<<"e", "m", "p", "l", "o", "y", "s">>, "UsesTool">>,
     <<<<"u", "t", "i", "l", "i", "z", "e", "s">>, "UsesTool">>,
     <<<<"m", "e", "n", "t", "i", "o", "n", "s">>, "Mentions">>,
     <<<<"r", "e", "f", "e", "r", "s", "_", "t", "o">>, "Mentions">>,
     <<<<"d", "i", "s", "c", "u", "s", "s", "e", "s">>, "Mentions">>,
     <<<<"r", "e", "l", "a", "t", "e", "d", "_", "t", "o">>, "RelatedTo">>,
     <<<<"a", "s", "s", "o", "c", "i", "a", "t", "e", "d", "_", "w", "i", "t", "h">>, "RelatedTo">>,
     <<<<"w", "o", "r", "k", "s", "_", "o", "n">>, "ReferencesFile">>,
     <<<<"m", "o", "d", "i", "f", "i", "e", "s">>, "ReferencesFile">>,
     <<<<"i", "s", "_", "a">>, "InstanceOf">>,
     <<<<"i", "n", "s", "t", "a", "n", "c", "e", "_", "o", "f">>, "InstanceOf">>}

\* faulty variant: the string is matched as given, without to_lowercase
map_str_to_nodetype_CaseSensitive(s) == Match(NodeTypeArms, s, "Generic")

\* map_str_to_nodetype, extraction.rs 68-79
map_str_to_nodetype(s) == Match(NodeTypeArms, ToLowercase(s), "Generic")

\* map_str_to_edgetype, extraction.rs 81-90
map_str_to_edgetype(s) == Match(EdgeTypeArms, ToLowercase(s), "RelatedTo")

----------------------------------------------------------------------------
(* extract_from_text, extraction.rs 95-195: the collaborator's response *)

Str(s) == [kind |-> "string", val |-> <<s>>]
Arr(seq) == [kind |-> "array", val |-> seq]
IsString(v) == v.kind = "string"
IsArray(v) == v.kind = "array"

\* an entity of the response: name, entity_type, and the optional id and
\* properties when they are given (NoField: the key is left out)
NoField == [kind |-> "absent", val |-> <<>>]
JsonObject(fields) ==
    Obj([k \in {f \in DOMAIN fields : fields[f] # NoField} |-> fields[k]])
EntityJson(name, entity_type, id, properties) ==
    JsonObject([name |-> name, entity_type |-> entity_type,
                id |-> id, properties |-> properties])
RelationJson(source, target, relation_type, properties) ==
    JsonObject([source_entity_name |-> source, target_entity_name |-> target,
                relation_type |-> relation_type, properties |-> properties])

TypePerson == <<"P", "e", "r", "s", "o", "n">>
TypeTool == <<"T", "o", "o", "l">>
TypeWidget == <<"W", "i", "d", "g", "e", "t">>
RelUses == <<"U", "s", "e", "s">>
RelMentions == <<"M", "E", "N", "T", "I", "O", "N", "S">>

\* the entities a response may list: Alice (a Person) and Compiler (a Tool),
\* a second entity named Alice of a type outside the table, Compiler with a
\* provided id, Alice with the same provided id and a property, and Alice
\* with a property named name
SampleEntities ==
    {EntityJson(Str("Alice"), Str(TypePerson), NoField, NoField),
     EntityJson(Str("Compiler"), Str(TypeTool), NoField, NoField),
     EntityJson(Str("Alice"), Str(TypeWidget), NoField, NoField),
     EntityJson(Str("Compiler"), Str(TypeTool), Str("x1"), Null),
     EntityJson(Str("Alice"), Str(TypePerson), Str("x1"),
                Obj([k \in {"age"} |-> Num(1)])),
     EntityJson(Str("Alice"), Str(TypePerson), NoField,
                Obj([k \in {"name"} |-> Str("Al")]))}

\* the relations a response may list: Alice uses Compiler, Compiler mentions
\* Alice (with a property), Alice uses Bob, whom no sample entity names, and
\* Alice uses Alice
SampleRelations ==
    {RelationJson(Str("Alice"), Str("Compiler"), Str(RelUses), NoField),
     RelationJson(Str("Compiler"), Str("Alice"), Str(RelMentions),
                  Obj([k \in {"weight"} |-> Num(1)])),
     RelationJson(Str("Alice"), Str("Bob"), Str(RelUses), NoField),
     RelationJson(Str("Alice"), Str("Alice"), Str(RelUses), NoField)}

MaxEntities == 2
MaxRelations == 2

\* the sequences of at most n elements of set S
SeqsUpTo(S, n) == UNION {[1..k -> S] : k \in 0..n}

\* the documents of the expected shape
ShapedDocuments ==
    {Obj([k \in {"entities", "relations"} |->
            IF k = "entities" THEN Arr(es) ELSE Arr(rs)]) :
        es \in SeqsUpTo(SampleEntities, MaxEntities),
        rs \in SeqsUpTo(SampleRelations, MaxRelations)}

\* documents of another shape: a key is missing, a list is no list, an
\* entity has no name, the document is no object
MisshapenDocuments ==
    {Obj([k \in {"entities"} |-> Arr(<<>>)]),
     Obj([k \in {"relations"} |-> Arr(<<>>)]),
     Obj([k \in {"entities", "relations"} |-> IF k = "entities" THEN Null ELSE Arr(<<>>)]),
     Obj([k \in {"entities", "relations"} |->
            IF k = "entities"
            THEN Arr(<<JsonObject([entity_type |-> Str(TypeTool)])>>)
            ELSE Arr(<<>>)]),
     Num(1)}

\* what llm_provider.complete(...).await yields: a failure, or a message
\* whose text is a JSON document or is no JSON at all
CompletionFailed == [kind |-> "failed", val |-> <<>>]
Text(json) == [kind |-> "text", val |-> <<json>>]
NotJson == [kind |-> "garbage", val |-> <<>>]
Completions ==
    {CompletionFailed, Text(NotJson)}
        \cup {Text(d) : d \in ShapedDocuments \cup MisshapenDocuments}

----------------------------------------------------------------------------
(* serde_json::from_str::<LlmExtractionOutput>, extraction.rs 31-51, 116 *)

\* an Option field: the key may be missing or null, else it has the kind
OptionShaped(m, k, kind) == k \in DOMAIN m => m[k] = Null \/ m[k].kind = kind
\* a required field of the kind
FieldShaped(m, k, kind) == k \in DOMAIN m /\ m[k].kind = kind

\* Option<String> / Option<HashMap<String, Value>> of key k
OptionString(m, k) == IF k \in DOMAIN m /\ m[k] # Null THEN Some(m[k].val[1]) ELSE None
OptionMap(m, k) == IF k \in DOMAIN m /\ m[k] # Null THEN Some(m[k].val) ELSE None

EntityShaped(v) ==
    /\ IsObject(v)
    /\ FieldShaped(v.val, "name", "string")
    /\ FieldShaped(v.val, "entity_type", "string")
    /\ OptionShaped(v.val, "id", "string")
    /\ OptionShaped(v.val, "properties", "object")

\* ExtractedEntityInfo
EntityInfo(v) ==
    [id |-> OptionString(v.val, "id"),
     name |-> v.val["name"].val[1],
     entity_type |-> v.val["entity_type"].val[1],
     properties |-> OptionMap(v.val, "properties")]

RelationShaped(v) ==
    /\ IsObject(v)
    /\ FieldShaped(v.val, "source_entity_name", "string")
    /\ FieldShaped(v.val, "target_entity_name", "string")
    /\ FieldShaped(v.val, "relation_type", "string")
    /\ OptionShaped(v.val, "properties", "object")

\* ExtractedRelationInfo
RelationInfo(v) ==
    [source_entity_name |-> v.val["source_entity_name"].val[1],
     target_entity_name |-> v.val["target_entity_name"].val[1],
     relation_type |-> v.val["relation_type"].val[1],
     properties |-> OptionMap(v.val, "properties")]

\* the text parses: it is JSON, an object with the lists entities and
\* relations, each element of its struct's shape
Parses(text) ==
    /\ text # NotJson
    /\ IsObject(text)
    /\ FieldShaped(text.val, "entities", "array")
    /\ FieldShaped(text.val, "relations", "array")
    /\ \A i \in DOMAIN text.val["entities"].val : EntityShaped(text.val["entities"].val[i])
    /\ \A i \in DOMAIN text.val["relations"].val : RelationShaped(text.val["relations"].val[i])

\* LlmExtractionOutput
ExtractionOutput(text) ==
    [entities |-> [i \in DOMAIN text.val["entities"].val |->
                    EntityInfo(text.val["entities"].val[i])],
     relations |-> [i \in DOMAIN text.val["relations"].val |->
                    RelationInfo(text.val["relations"].val[i])]]

----------------------------------------------------------------------------
(* extract_from_text, extraction.rs 95-195: the steps *)

UpstreamFailure == Err("UpstreamFailure")   \* "LLM call failed during extraction: ..."
ParseFailure == Err("ParseFailure")         \* "Failed to parse LLM JSON output ..."

\* Uuid::new_v4(): the n-th fresh value of this call
Uuid(n) == <<"uuid", n>>
\* an id the response provides
ProvidedId(s) == <<s>>
\* format!("urn:goose:entity:{}:{}", entity_type.to_lowercase(), Uuid::new_v4())
EntityUrn(entity_type, n) == <<"urn:goose:entity", ToLowercase(entity_type), Uuid(n)>>

\* the properties of the node of an entity: {"name": name}, extended with
\* the entity's properties when it has some (extraction.rs 131-140)
EntityProperties(entity) ==
    LET base == [k \in {"name"} |-> Str(entity.name)] IN
        IF entity.properties = None
        THEN Obj(base)
        ELSE Obj(MergeInto(base, entity.properties[1]))

\* faulty variant: the node of the first entity with a name is kept
RECURSIVE InsertEntities_KeepsFirst(_, _, _, _, _)
InsertEntities_KeepsFirst(entities, i, nodes_map, uuids, now) ==
    IF i > Len(entities)
    THEN [nodes_map |-> nodes_map, uuids |-> uuids]
    ELSE LET entity == entities[i]
             drawn == IF entity.id = None THEN uuids + 1 ELSE uuids
             node_id == IF entity.id = None
                        THEN EntityUrn(entity.entity_type, drawn)
                        ELSE ProvidedId(entity.id[1])
             node == NewNode(node_id, map_str_to_nodetype(entity.entity_type),
                             EntityProperties(entity), now)
         IN  InsertEntities_KeepsFirst(entities, i + 1,
                IF entity.name \in DOMAIN nodes_map
                THEN nodes_map ELSE MapInsert(nodes_map, entity.name, node),
                drawn, now)

\* the loop over the entities (extraction.rs 123-145), from the i-th on:
\* the name -> node map, and the number of uuids drawn
RECURSIVE InsertEntities(_, _, _, _, _)
InsertEntities(entities, i, nodes_map, uuids, now) ==
    IF i > Len(entities)
    THEN [nodes_map |-> nodes_map, uuids |-> uuids]
    ELSE LET entity == entities[i]
             drawn == IF entity.id = None THEN uuids + 1 ELSE uuids
             node_id == IF entity.id = None
                        THEN EntityUrn(entity.entity_type, drawn)
                        ELSE ProvidedId(entity.id[1])
             node == NewNode(node_id, map_str_to_nodetype(entity.entity_type),
                             EntityProperties(entity), now)
         IN  InsertEntities(entities, i + 1, MapInsert(nodes_map, entity.name, node),
                            drawn, now)

\* the loop over the relations (extraction.rs 148-164), from the i-th on:
\* the edges pushed, and the number of uuids drawn
RECURSIVE PushRelations(_, _, _, _, _, _)
PushRelations(relations, i, nodes_map, all_edges, uuids, now) ==
    IF i > Len(relations)
    THEN [all_edges |-> all_edges, uuids |-> uuids]
    ELSE LET relation == relations[i]
             source == relation.source_entity_name
             target == relation.target_entity_name
         IN  IF source \in DOMAIN nodes_map /\ target \in DOMAIN nodes_map
             THEN LET properties == IF relation.properties = None
                                    THEN Null ELSE Obj(relation.properties[1])
                      edge == NewEdge(Uuid(uuids + 1), nodes_map[source].id,
                                      nodes_map[target].id,
                                      map_str_to_edgetype(relation.relation_type),
                                      properties, now)
                  IN  PushRelations(relations, i + 1, nodes_map,
                                    Append(all_edges, edge), uuids + 1, now)
             ELSE PushRelations(relations, i + 1, nodes_map, all_edges, uuids, now)

\* faulty variant: a failed completion is awaited a second time
EX_Complete_Retries(p) ==
    /\ pc[p] = "ex_complete"
    /\ \E completion \in Completions :
        /\ loc' = [loc EXCEPT ![p].completions = @ + 1,
                              ![p].completion = completion,
                              ![p].response = IF completion = CompletionFailed
                                              THEN @ ELSE completion.val[1]]
        /\ IF completion # CompletionFailed
           THEN Goto(p, "ex_parse") /\ UNCHANGED ret
           ELSE IF loc[p].completions = 0
                THEN UNCHANGED <<pc, ret>>
                ELSE Return(p, UpstreamFailure)
    /\ UNCHANGED <<store, holder, call, pre, clock, calls>>

\* self.llm_provider.complete(&system_prompt, &[], &[]).await.map_err(..)?
EX_Complete(p) ==
    /\ pc[p] = "ex_complete"
    /\ \E completion \in Completions :
        IF completion = CompletionFailed
        THEN /\ Return(p, UpstreamFailure)
             /\ loc' = [loc EXCEPT ![p].completions = @ + 1,
                                   ![p].completion = completion]
        ELSE /\ Goto(p, "ex_parse")
             /\ loc' = [loc EXCEPT ![p].completions = @ + 1,
                                   ![p].completion = completion,
                                   ![p].response = completion.val[1]]
             /\ UNCHANGED ret
    /\ UNCHANGED <<store, holder, call, pre, clock, calls>>

\* serde_json::from_str(&llm_output_text).map_err(..)?
EX_Parse(p) ==
    /\ pc[p] = "ex_parse"
    /\ IF Parses(loc[p].response)
       THEN /\ Goto(p, "ex_entities")
            /\ SetLoc(p, "data", ExtractionOutput(loc[p].response))
            /\ UNCHANGED ret
       ELSE /\ Return(p, ParseFailure)
            /\ UNCHANGED loc
    /\ UNCHANGED <<store, holder, call, pre, clock, calls>>

EX_Entities(p) ==
    /\ pc[p] = "ex_entities"
    /\ LET done == InsertEntities(loc[p].data.entities, 1, EmptyMap, loc[p].uuids, clock) IN
        loc' = [loc EXCEPT ![p].nodes_map = done.nodes_map, ![p].uuids = done.uuids]
    /\ Goto(p, "ex_relations")
    /\ UNCHANGED <<store, holder, call, ret, pre, clock, calls>>

EX_Relations(p) ==
    /\ pc[p] = "ex_relations"
    /\ LET done == PushRelations(loc[p].data.relations, 1, loc[p].nodes_map, <<>>,
                                 loc[p].uuids, clock) IN
        loc' = [loc EXCEPT ![p].all_edges = done.all_edges, ![p].uuids = done.uuids]
    /\ Goto(p, "ex_assemble")
    /\ UNCHANGED <<store, holder, call, ret, pre, clock, calls>>

\* extraction.rs 167-194: nodes_map.into_values() yields the nodes in any
\* order; the first of them is returned with all the edges
\* faulty variant: every node of the batch is returned, each paired with all
\* edges
EX_Assemble_PairPerNode(p) ==
    /\ pc[p] = "ex_assemble"
    /\ LET names == DOMAIN loc[p].nodes_map IN
        \E order \in [1..Cardinality(names) -> names] :
            /\ \A i, j \in DOMAIN order : order[i] = order[j] => i = j
            /\ Return(p, Ok([i \in DOMAIN order |->
                                <<loc[p].nodes_map[order[i]], loc[p].all_edges>>]))
    /\ UNCHANGED <<store, holder, call, loc, pre, clock, calls>>

EX_Assemble(p) ==
    /\ pc[p] = "ex_assemble"
    /\ IF DOMAIN loc[p].nodes_map = {}
       THEN Return(p, Ok(<<>>))
       ELSE \E name \in DOMAIN loc[p].nodes_map :
                Return(p, Ok(<<<<loc[p].nodes_map[name], loc[p].all_edges>>>>))
    /\ UNCHANGED <<store, holder, call, loc, pre, clock, calls>>

ExtractStep(p) ==
    \/ EX_Complete(p) \/ EX_Parse(p) \/ EX_Entities(p) \/ EX_Relations(p) \/ EX_Assemble(p)

MaxExtractCalls == 2

ExtractRequests == {[op |-> "extract_from_text", text_content |-> "Alice uses the Compiler tool"]}

\* one extraction at a time
ExtractInvoke(p) ==
    /\ AllIdle
    /\ calls < MaxExtractCalls
    /\ UNCHANGED <<clock, pre>>
    /\ Invoke(p, ExtractRequests)

ExtractNext ==
    \E p \in Callers : ExtractInvoke(p) \/ Respond(p) \/ ExtractStep(p)

SpecExtract == Init /\ [][ExtractNext]_vars

----------------------------------------------------------------------------
(* The type mappings, called on strings in every letter case *)

\* character c, and its capital when it is a small letter
BothCases(c) == {c} \cup {UpperCase[i] : i \in {j \in DOMAIN LowerCase : LowerCase[j] = c}}

\* the spellings of word w in every letter case
RECURSIVE Spellings(_)
Spellings(w) ==
    IF w = <<>>
    THEN {<<>>}
    ELSE {<<c>> \o s : c \in BothCases(Head(w)), s \in Spellings(Tail(w))}

\* strings of the two tables in every letter case, and strings of neither:
\* the empty string, a word of no table, a table word with one more
\* character, with a digit for a letter, with a blank at its end
TypeStrings ==
    UNION {Spellings(w) : w \in {<<"t", "o", "o", "l">>, <<"o", "r", "g">>, <<"t", "a", "s", "k">>, <<"u", "s", "e", "s">>, <<"i", "s", "_", "a">>, <<"w", "i", "d", "g", "e", "t">>}}
        \cup {<<>>, <<"t", "o", "o", "l", "s">>, <<"t", "0", "0", "l">>, <<"o", "r", "g", " ">>}

MaxMapCalls == 2

MapRequests ==
    {[op |-> f, s |-> s] :
        f \in {"map_str_to_nodetype", "map_str_to_edgetype"}, s \in TypeStrings}

MapNodeType(p) ==
    /\ pc[p] = "map_nodetype"
    /\ Return(p, Ok(map_str_to_nodetype(call[p].s)))
    /\ UNCHANGED <<store, holder, call, loc, pre, clock, calls>>

MapEdgeType(p) ==
    /\ pc[p] = "map_edgetype"
    /\ Return(p, Ok(map_str_to_edgetype(call[p].s)))
    /\ UNCHANGED <<store, holder, call, loc, pre, clock, calls>>

MapInvoke(p) ==
    /\ AllIdle
    /\ calls < MaxMapCalls
    /\ UNCHANGED <<clock, pre>>
    /\ Invoke(p, MapRequests)

MapNext ==
    \E p \in Callers : MapInvoke(p) \/ Respond(p) \/ MapNodeType(p) \/ MapEdgeType(p)

SpecMap == Init /\ [][MapNext]_vars

----------------------------------------------------------------------------
(* The callers *)

AddNodeStep(p) ==
    \/ AN_LockNodes(p) \/ AN_Insert(p) \/ AN_LockOutgoing(p) \/ AN_Outgoing(p)
    \/ AN_LockIncoming(p) \/ AN_Incoming(p)

AddEdgeStep(p) ==
    \/ AE_LockEdges(p) \/ AE_Check(p) \/ AE_LockNodes(p) \/ AE_Insert(p)
    \/ AE_LockOutgoing(p) \/ AE_Outgoing(p) \/ AE_LockIncoming(p) \/ AE_Incoming(p)

DeleteEdgeStep(p) ==
    \/ DE_LockEdges(p) \/ DE_Remove(p) \/ DE_LockOutgoing(p) \/ DE_Outgoing(p)
    \/ DE_LockIncoming(p) \/ DE_Incoming(p)

DeleteNodeStep(p) ==
    \/ DN_LockOutgoing(p) \/ DN_LockIncoming(p) \/ DN_Collect(p) \/ DN_Loop(p)
    \/ DN_LockNodes(p) \/ DN_Remove(p) \/ DN_LockOutgoing2(p) \/ DN_Outgoing(p)
    \/ DN_LockIncoming2(p) \/ DN_Incoming(p)

\* get_node_by_id and get_edges_by_node_id
ReadStep(p) ==
    \/ GN_LockNodes(p) \/ GN_Get(p)
    \/ GE_Outgoing(p) \/ GE_OutgoingGet(p) \/ GE_Incoming(p) \/ GE_IncomingGet(p)
    \/ GE_LockEdges(p) \/ GE_Collect(p)

QueryStep(p) ==
    \/ ReadStep(p)
    \/ GP_LockNodes(p) \/ GP_Filter(p)
    \/ QC(p)

UpdateStep(p) ==
    \/ UN_LockNodes(p) \/ UN_Update(p) \/ UE_LockEdges(p) \/ UE_Update(p)

\* the requests about the Tool node n1 and its self-loop e1, one per
\* operation and path through it
OnOneNode(q) ==
    CASE q.op = "add_node" -> q.node.id = "n1" /\ q.node.node_type = "Tool"
      [] q.op = "add_edge" ->
            q.edge.id = "e1" /\ q.edge.source_node_id = "n1" /\ q.edge.target_node_id = "n1"
      [] q.op \in {"get_node_by_id", "get_edges_by_node_id", "delete_node"} -> q.node_id = "n1"
      [] q.op = "get_nodes_by_type_and_property" ->
            q.node_type = "Tool" /\ q.property_value = Num(1)
      [] q.op = "update_node_properties" ->
            q.node_id = "n1" /\ q.properties_to_update = Obj([k \in {"a"} |-> Num(1)])
      [] q.op = "update_edge_properties" ->
            q.edge_id = "e1" /\ q.properties_to_update = Obj([k \in {"a"} |-> Num(1)])
      [] q.op = "delete_edge" -> q.edge_id = "e1"
      [] q.op = "query_cypher" -> q.query = "MATCH (n) RETURN n" /\ q.params = <<>>
      [] OTHER -> TRUE
\* the operations that insert and delete
GraphOps == {"add_node", "add_edge", "delete_edge", "delete_node"}
\* the operations the store runs as one critical section of the table they change
AtomicOps == {"add_node", "add_edge", "delete_edge", "update_node_properties",
              "update_edge_properties"}

\* one operation at a time: a caller invokes when every caller is idle; the
\* clock has advanced since the last invocation
SeqInvoke(p) ==
    /\ AllIdle
    /\ calls < MaxSeqCalls
    /\ clock' = clock + 1
    /\ pre' = store
    /\ Invoke(p, Requests(clock'))

\* concurrent callers: a caller invokes whenever it is idle; the run takes
\* place within one reading of the clock
ConcInvokeOf(p, requests) ==
    /\ calls < MaxCalls
    /\ UNCHANGED <<clock, pre>>
    /\ Invoke(p, requests)

ConcInvoke(p) == ConcInvokeOf(p, Requests(clock))
GraphInvoke(p) == ConcInvokeOf(p, {q \in Requests(clock) : q.op \in GraphOps})
AtomicInvoke(p) == ConcInvokeOf(p, {q \in Requests(clock) : q.op \in AtomicOps})
\* all ten operations on one node and its self-loop: the mutexes an operation
\* takes do not depend on which ids it is given
LockInvoke(p) == ConcInvokeOf(p, {q \in Requests(clock) : OnOneNode(q)})

SeqNext ==
    \E p \in Callers :
        \/ SeqInvoke(p) \/ Respond(p)
        \/ AddNodeStep(p) \/ AddEdgeStep(p) \/ DeleteEdgeStep(p) \/ DeleteNodeStep(p)
        \/ QueryStep(p) \/ UpdateStep(p)

Next ==
    \E p \in Callers :
        \/ ConcInvoke(p) \/ Respond(p)
        \/ AddNodeStep(p) \/ AddEdgeStep(p) \/ DeleteEdgeStep(p) \/ DeleteNodeStep(p)
        \/ QueryStep(p) \/ UpdateStep(p)

GraphNext ==
    \E p \in Callers :
        \/ GraphInvoke(p) \/ Respond(p)
        \/ AddNodeStep(p) \/ AddEdgeStep(p) \/ DeleteEdgeStep(p) \/ DeleteNodeStep(p)

LockNext ==
    \E p \in Callers :
        \/ LockInvoke(p) \/ Respond(p)
        \/ AddNodeStep(p) \/ AddEdgeStep(p) \/ DeleteEdgeStep(p) \/ DeleteNodeStep(p)
        \/ QueryStep(p) \/ UpdateStep(p)

AtomicNext ==
    \E p \in Callers :
        \/ AtomicInvoke(p) \/ Respond(p)
        \/ AddNodeStep(p) \/ AddEdgeStep(p) \/ DeleteEdgeStep(p) \/ UpdateStep(p)

\* the steps of the operation caller p runs
Proceed(p) ==
    \/ AddNodeStep(p) \/ AddEdgeStep(p) \/ DeleteEdgeStep(p) \/ DeleteNodeStep(p)
    \/ QueryStep(p) \/ UpdateStep(p)

\* Spec: the operations one at a time. SpecConc: concurrent callers, all ten
\* operations. SpecGraph: concurrent inserts and deletes. SpecAtomic:
\* concurrent operations other than delete_node and the queries.
Spec == Init /\ [][SeqNext]_vars
SpecConc == Init /\ [][Next]_vars
SpecGraph == Init /\ [][GraphNext]_vars
SpecAtomic == Init /\ [][AtomicNext]_vars
\* SpecFair: concurrent callers, all ten operations, on one node and its
\* self-loop, under a fair scheduler: a caller that can take a step of its
\* operation, and stays able to, takes it.
SpecFair == Init /\ [][LockNext]_vars /\ \A p \in Callers : WF_vars(Proceed(p))

----------------------------------------------------------------------------
(* The updates, one operation at a time, with patches that nest objects *)

MaxUpdateCalls == 5

\* the patches of Patches, and two whose value for key a is an object
NestedPatches ==
    Patches \cup {Obj([k \in {"a"} |-> Obj([j \in {"x"} |-> Num(1)])]),
                  Obj([k \in {"a"} |-> Obj(EmptyMap)])}

\* the Tool nodes, the edge e1 between any two nodes, and every update of them
UpdateRequests(t) ==
    {q \in Requests(t) :
        \/ q.op = "add_node" /\ q.node.node_type = "Tool"
        \/ q.op = "add_edge" /\ q.edge.id = "e1"}
    \cup {[op |-> "update_node_properties", node_id |-> n, properties_to_update |-> u] :
            n \in NodeIds, u \in NestedPatches}
    \cup {[op |-> "update_edge_properties", edge_id |-> "e1", properties_to_update |-> u] :
            u \in NestedPatches}

UpdateInvoke(p) ==
    /\ AllIdle
    /\ calls < MaxUpdateCalls
    /\ clock' = clock + 1
    /\ pre' = store
    /\ Invoke(p, UpdateRequests(clock'))

UpdateNext ==
    \E p \in Callers :
        \/ UpdateInvoke(p) \/ Respond(p)
        \/ AddNodeStep(p) \/ AddEdgeStep(p) \/ UpdateStep(p)

SpecUpdate == Init /\ [][UpdateNext]_vars

----------------------------------------------------------------------------
(* delete_node of a node with two edges, next to a concurrent reader *)

MaxCascadeCalls == 5

\* the Tool node n1, the self-loops e1 and e2 on it, its deletion, and the
\* two reads of it
CascadeRequests ==
    {q \in Requests(clock) :
        \/ q.op = "add_node" /\ q.node.id = "n1" /\ q.node.node_type = "Tool"
        \/ q.op = "add_edge" /\ q.edge.source_node_id = "n1" /\ q.edge.target_node_id = "n1"
        \/ q.op \in {"delete_node", "get_node_by_id"} /\ q.node_id = "n1"
        \/ q.op = "get_edges_by_node_id" /\ q.node_id = "n1" /\ q.direction = "both"}

\* a caller invokes whenever it is idle; pre records the tables as they are
\* at this invocation
CascadeInvoke(p) ==
    /\ calls < MaxCascadeCalls
    /\ pre' = store
    /\ UNCHANGED clock
    /\ Invoke(p, CascadeRequests)

CascadeNext ==
    \E p \in Callers :
        \/ CascadeInvoke(p) \/ Respond(p)
        \/ AddNodeStep(p) \/ AddEdgeStep(p) \/ DeleteEdgeStep(p) \/ DeleteNodeStep(p)
        \/ ReadStep(p)

SpecCascade == Init /\ [][CascadeNext]_vars

----------------------------------------------------------------------------
(* Two callers at once on one node id or one edge id *)

MaxRaceCalls == 4

\* patches over the keys a, b and c, two of them over the same key
RacePatches ==
    {Obj([k \in {"a"} |-> Num(1)]), Obj([k \in {"b"} |-> Num(2)]),
     Obj([k \in {"c"} |-> Num(3)]), Obj([k \in {"a"} |-> Num(2)])}

\* every node, the edge e1 between any two nodes, and the updates of node n1
RaceRequests(t) ==
    {q \in Requests(t) : q.op = "add_node" \/ (q.op = "add_edge" /\ q.edge.id = "e1")}
    \cup {[op |-> "update_node_properties", node_id |-> "n1", properties_to_update |-> u] :
            u \in RacePatches}

\* a caller invokes when every caller is idle, and the clock has advanced
\* since the last such invocation; or it joins the one call that is under
\* way, before a table has changed (a call does nothing between its
\* invocation and its first mutex, so every interleaving of the steps of two
\* calls remains). pre is the store the calls under way started from.
RaceInvoke(p) ==
    /\ calls < MaxRaceCalls
    /\ IF AllIdle
       THEN clock' = clock + 1 /\ pre' = store
       ELSE /\ Cardinality({q \in Callers : pc[q] # "idle"}) = 1
            /\ store = pre
            /\ UNCHANGED <<clock, pre>>
    /\ Invoke(p, RaceRequests(clock'))

RaceNext ==
    \E p \in Callers :
        \/ RaceInvoke(p) \/ Respond(p)
        \/ AddNodeStep(p) \/ AddEdgeStep(p)
        \/ UN_LockNodes(p) \/ UN_Update(p)

SpecRace == Init /\ [][RaceNext]_vars

----------------------------------------------------------------------------
(* get_edges_by_node_id next to one add_edge or delete_edge *)

MaxViewCalls == 4

\* the Tool node n1, the self-loops e1 and e2 on it and their deletion
ViewWrites ==
    {q \in Requests(clock) :
        \/ q.op = "add_node" /\ q.node.id = "n1" /\ q.node.node_type = "Tool"
        \/ q.op = "add_edge" /\ q.edge.source_node_id = "n1" /\ q.edge.target_node_id = "n1"
        \/ q.op = "delete_edge"}

\* the reads of the edges of n1
ViewReads ==
    {q \in Requests(clock) :
        /\ q.op = "get_edges_by_node_id" /\ q.node_id = "n1"
        /\ q.direction \in {"outgoing", "incoming", "both"}}

\* a reader is invoked next to at most one call under way, and no call is
\* invoked before the reader has responded: the edge table changes at most
\* once between the reader's invocation and its return. pre records the
\* tables as they are when the reader is invoked.
ViewInvoke(p) ==
    /\ calls < MaxViewCalls
    /\ \A q \in Callers : call[q].op # "get_edges_by_node_id"
    /\ \/ /\ Cardinality({q \in Callers : pc[q] \notin {"idle", "done"}}) <= 1
          /\ pre' = store
          /\ UNCHANGED clock
          /\ Invoke(p, ViewReads)
       \/ /\ UNCHANGED <<clock, pre>>
          /\ Invoke(p, ViewWrites)

ViewNext ==
    \E p \in Callers :
        \/ ViewInvoke(p) \/ Respond(p)
        \/ AddNodeStep(p) \/ AddEdgeStep(p) \/ DeleteEdgeStep(p)
        \/ GE_Outgoing(p) \/ GE_OutgoingGet(p) \/ GE_Incoming(p) \/ GE_IncomingGet(p)
        \/ GE_LockEdges(p) \/ GE_Collect(p)

SpecView == Init /\ [][ViewNext]_vars

----------------------------------------------------------------------------
(* Properties *)

Running(p) == pc[p] \notin {"idle", "done"}
\* every invoked operation has returned
Quiescent == \A p \in Callers : ~Running(p)
\* caller p has returned from operation op
Returned(p, op) == pc[p] = "done" /\ call[p].op = op

PreNodes == pre[1]
PreEdges == pre[2]
PreOutgoing == pre[3]
PreIncoming == pre[4]

Touches(edge, n) == edge.source_node_id = n \/ edge.target_node_id = n

\* every edge of the edge table is indexed under its source and its target
EdgesIndexed ==
    \A e \in DOMAIN edges :
        /\ e \in IndexGet(adj_outgoing, edges[e].source_node_id)
        /\ e \in IndexGet(adj_incoming, edges[e].target_node_id)

\* every indexed id is an edge of the edge table, indexed where it belongs
IndexedAreEdges ==
    /\ \A n \in DOMAIN adj_outgoing : \A e \in adj_outgoing[n] :
            e \in DOMAIN edges /\ edges[e].source_node_id = n
    /\ \A n \in DOMAIN adj_incoming : \A e \in adj_incoming[n] :
            e \in DOMAIN edges /\ edges[e].target_node_id = n

\* C1: after any sequence of operations run one at a time, each edge id is in
\* the outgoing entry of its source and the incoming entry of its target and
\* in no other entry, and every id in an entry is an edge of the edge table.
C1_IndexInvariant == Quiescent => EdgesIndexed /\ IndexedAreEdges

\* a delete_edge has succeeded and left another edge behind
C1_Witness ==
    \E p \in Callers :
        Returned(p, "delete_edge") /\ ret[p] = OkUnit /\ DOMAIN edges # {}

\* C2 (as claimed): when every operation has returned, both endpoints of
\* every edge are in the node table.
C2_EdgeEndpointsExist ==
    Quiescent =>
        \A e \in DOMAIN edges :
            /\ edges[e].source_node_id \in DOMAIN nodes
            /\ edges[e].target_node_id \in DOMAIN nodes

\* C3: whenever the edge-table mutex is free (no caller is inside add_edge or
\* delete_edge), an edge id is in the edge table exactly if it is in the
\* outgoing entry of its source and the incoming entry of its target.
C3_EdgeOpsAtomic == holder["edges"] = NoOne => EdgesIndexed /\ IndexedAreEdges

\* an add_edge has succeeded while another caller is in the middle of an
\* operation, and the edge-table mutex is free
C3_Witness ==
    /\ holder["edges"] = NoOne
    /\ \E p, q \in Callers :
        /\ Returned(p, "add_edge") /\ ret[p] = OkUnit
        /\ Running(q) /\ pc[q] # Entry(call[q].op)

\* C4 (as claimed): when every operation has returned, every node of the
\* node table has an entry in both adjacency indices.
C4_NodesHaveEntries ==
    Quiescent =>
        \A n \in DOMAIN nodes : n \in DOMAIN adj_outgoing /\ n \in DOMAIN adj_incoming

\* some caller is in an operation and no such caller can take a step: each
\* waits for a mutex
Deadlocked ==
    /\ \E p \in Callers : Running(p)
    /\ \A p \in Callers : Running(p) => ~ENABLED Proceed(p)

\* C5: no reachable state has every caller that is in an operation waiting
\* for a mutex, and under a fair scheduler every invoked operation returns.
C5_DeadlockFree ==
    /\ []~Deadlocked
    /\ \A p \in Callers : Running(p) ~> pc[p] = "done"

\* a caller inside add_edge, holding the edge-table mutex, waits for the
\* node-table mutex, held by a caller inside add_node that is about to take
\* an index mutex
C5_Witness ==
    \E p, q \in Callers :
        /\ pc[p] = "ae_lock_nodes" /\ holder["edges"] = p
        /\ pc[q] \in {"an_lock_outgoing", "an_lock_incoming"} /\ holder["nodes"] = q

\* C6 (as claimed): inside delete_node, a delete_edge that finds its edge
\* already gone does not make delete_node return; delete_node goes on.
C6_MissingEdgeTolerated ==
    [][\A p \in Callers :
        pc[p] = "de_remove" /\ call[p].op = "delete_node" => pc'[p] # "done"]_vars

\* C7: run alone, a successful delete_node(id) removes id from the node table,
\* every edge that touched id from the edge table, those edge ids from the
\* entries of every remaining node, so that get_edges_by_node_id(m, "both")
\* returns none of them, and both adjacency entries of id.
C7_DeleteNodeCascades ==
    \A p \in Callers :
        Returned(p, "delete_node") /\ ret[p] = OkUnit =>
            LET id == call[p].node_id
                gone == {e \in DOMAIN PreEdges : Touches(PreEdges[e], id)}
            IN  /\ id \in DOMAIN PreNodes
                /\ id \notin DOMAIN nodes
                /\ gone \cap DOMAIN edges = {}
                /\ \A m \in DOMAIN nodes :
                    /\ gone \cap IndexGet(adj_outgoing, m) = {}
                    /\ gone \cap IndexGet(adj_incoming, m) = {}
                    /\ \A e \in gone : PreEdges[e] \notin
                        {edges[x] : x \in (IndexGet(adj_outgoing, m)
                                            \cup IndexGet(adj_incoming, m)) \cap DOMAIN edges}
                /\ id \notin DOMAIN adj_outgoing
                /\ id \notin DOMAIN adj_incoming

\* a delete_node has succeeded on a node with an edge to a neighbour that remains
C7_Witness ==
    \E p \in Callers :
        /\ Returned(p, "delete_node") /\ ret[p] = OkUnit
        /\ \E e \in DOMAIN PreEdges :
            /\ PreEdges[e].target_node_id = call[p].node_id
            /\ PreEdges[e].source_node_id \in DOMAIN nodes

\* add_edge(edge) was invoked with an endpoint missing from the node table
MissingEndpoint(edge) ==
    edge.source_node_id \notin DOMAIN PreNodes \/ edge.target_node_id \notin DOMAIN PreNodes

\* C8 (as claimed): add_edge(e) with an endpoint missing from the node table
\* fails with NotFound and leaves the four tables as they were.
C8_MissingEndpointNotFound ==
    \A p \in Callers :
        Returned(p, "add_edge") /\ MissingEndpoint(call[p].edge) =>
            ret[p] = NotFound /\ store = pre

\* C8 (amended): add_edge(e) with an endpoint missing from the node table
\* fails and leaves the four tables as they were; the failure is NotFound
\* when e.id is not a key of the edge table, and Conflict when it is.
C8_MissingEndpointFails ==
    \A p \in Callers :
        Returned(p, "add_edge") /\ MissingEndpoint(call[p].edge) =>
            /\ ret[p] = IF call[p].edge.id \in DOMAIN PreEdges THEN Conflict ELSE NotFound
            /\ store = pre

\* an add_edge has failed with NotFound for a missing target, the source being stored
C8_Witness ==
    \E p \in Callers :
        /\ Returned(p, "add_edge") /\ ret[p] = NotFound
        /\ call[p].edge.source_node_id \in DOMAIN PreNodes
        /\ call[p].edge.target_node_id \notin DOMAIN PreNodes

\* C9: add_edge(e) with e.id already a key of the edge table fails with
\* Conflict, the stored edge keeps its source, target, type and properties,
\* and both adjacency indices are unchanged.
C9_DuplicateEdgeConflict ==
    \A p \in Callers :
        Returned(p, "add_edge") /\ call[p].edge.id \in DOMAIN PreEdges =>
            /\ ret[p] = Conflict
            /\ call[p].edge.id \in DOMAIN edges
            /\ edges[call[p].edge.id] = PreEdges[call[p].edge.id]
            /\ adj_outgoing = PreOutgoing
            /\ adj_incoming = PreIncoming

\* an add_edge has returned for a stored id with other endpoints than the stored edge's
C9_Witness ==
    \E p \in Callers :
        /\ Returned(p, "add_edge")
        /\ call[p].edge.id \in DOMAIN PreEdges
        /\ call[p].edge.target_node_id # PreEdges[call[p].edge.id].target_node_id
        /\ ~MissingEndpoint(call[p].edge)

\* C10: add_node(n) with n.id already stored fails with Conflict; the stored
\* node keeps its type, labels, properties and timestamps, and the edge table
\* and both adjacency indices are unchanged.
C10_DuplicateNodeConflict ==
    \A p \in Callers :
        Returned(p, "add_node") /\ call[p].node.id \in DOMAIN PreNodes =>
            /\ ret[p] = Conflict
            /\ call[p].node.id \in DOMAIN nodes
            /\ nodes[call[p].node.id] = PreNodes[call[p].node.id]
            /\ edges = PreEdges
            /\ adj_outgoing = PreOutgoing
            /\ adj_incoming = PreIncoming

\* an add_node has returned for a stored id that has an edge recorded, with
\* another type than the stored node's
C10_Witness ==
    \E p \in Callers :
        /\ Returned(p, "add_node")
        /\ call[p].node.id \in DOMAIN PreNodes
        /\ call[p].node.node_type # PreNodes[call[p].node.id].node_type
        /\ IndexGet(PreOutgoing, call[p].node.id) # {}

\* the edges a successful get_edges_by_node_id returned to caller p, a bag
Result(p) == ret[p].val[1]

\* C11: an edge that add_edge stored, and that has not been deleted since,
\* nor one of its endpoints, is contained in the result of
\* get_edges_by_node_id(source, "outgoing"), of
\* get_edges_by_node_id(target, "incoming"), and, for both endpoints, of
\* get_edges_by_node_id with direction "both" or with no direction.
C11_AddedEdgeIsReturned ==
    \A p \in Callers :
        Returned(p, "get_edges_by_node_id") =>
            /\ ret[p].kind = "Ok"
            /\ \A e \in DOMAIN PreEdges :
                LET edge == PreEdges[e]
                    id == call[p].node_id
                    d == call[p].direction
                IN  /\ edge.source_node_id = id /\ d \in {"outgoing", "both", NoDirection}
                        => BagIn(edge, Result(p))
                    /\ edge.target_node_id = id /\ d \in {"incoming", "both", NoDirection}
                        => BagIn(edge, Result(p))

\* get_edges_by_node_id(target, "incoming") has returned an edge whose
\* source is another node
C11_Witness ==
    \E p \in Callers :
        /\ Returned(p, "get_edges_by_node_id") /\ call[p].direction = "incoming"
        /\ \E e \in DOMAIN PreEdges :
            /\ PreEdges[e].target_node_id = call[p].node_id
            /\ PreEdges[e].source_node_id # call[p].node_id
            /\ BagIn(PreEdges[e], Result(p))

\* C12: add_node(n) with an id that is not stored succeeds and stores a node
\* equal to n in id, type, labels and properties; get_node_by_id returns, as
\* a success, the stored node of that id, so that directly after add_node(n)
\* it returns a node equal to n in these fields, and the empty option for an
\* id that is not stored; get_node_by_id changes nothing.
C12_AddThenGetNode ==
    \A p \in Callers :
        /\ Returned(p, "add_node") /\ call[p].node.id \notin DOMAIN PreNodes =>
            LET n == call[p].node IN
                /\ ret[p] = OkUnit
                /\ n.id \in DOMAIN nodes
                /\ nodes[n.id].id = n.id
                /\ nodes[n.id].node_type = n.node_type
                /\ nodes[n.id].labels = n.labels
                /\ nodes[n.id].properties = n.properties
        /\ Returned(p, "get_node_by_id") =>
            /\ store = pre
            /\ ret[p] = IF call[p].node_id \in DOMAIN PreNodes
                        THEN Ok(Some(PreNodes[call[p].node_id]))
                        ELSE Ok(None)

\* get_node_by_id has returned a node that the call before it added (the
\* node was created at the previous reading of the clock); the other id is
\* stored too
C12_Witness ==
    \E p \in Callers :
        /\ Returned(p, "get_node_by_id")
        /\ ret[p].kind = "Ok" /\ ret[p].val[1] # None
        /\ ret[p].val[1][1].id = call[p].node_id
        /\ ret[p].val[1][1].created_at = clock - 1
        /\ DOMAIN nodes = NodeIds

\* the edges of edges_map a query for node id in direction d is about
Matching(edges_map, id, d) ==
    {edges_map[e] : e \in {x \in DOMAIN edges_map :
        \/ d \in {"outgoing", "both", NoDirection} /\ edges_map[x].source_node_id = id
        \/ d \in {"incoming", "both", NoDirection} /\ edges_map[x].target_node_id = id}}

\* C13: run alone, get_edges_by_node_id(id, d) returns, as a success, exactly
\* the edges of the edge table with source id for "outgoing", with target id
\* for "incoming", with either for "both" and for no direction, each of them
\* once (a self-loop too); for an id that is not a stored node the result is
\* empty.
C13_EdgesByDirection ==
    \A p \in Callers :
        Returned(p, "get_edges_by_node_id")
            /\ call[p].direction \in {"outgoing", "incoming", "both", NoDirection} =>
                /\ ret[p].kind = "Ok"
                /\ Result(p) = SetToBag(Matching(PreEdges, call[p].node_id, call[p].direction))
                /\ call[p].node_id \notin DOMAIN PreNodes => Result(p) = EmptyBag

\* get_edges_by_node_id(id, "both") has returned the self-loop on id, once
C13_Witness ==
    \E p \in Callers :
        /\ Returned(p, "get_edges_by_node_id") /\ call[p].direction = "both"
        /\ call[p].node_id \in DOMAIN PreNodes
        /\ \E e \in DOMAIN PreEdges :
            /\ PreEdges[e].source_node_id = call[p].node_id
            /\ PreEdges[e].target_node_id = call[p].node_id
            /\ CopiesIn(PreEdges[e], Result(p)) = 1

\* the stored document after a successful update of document s with patch u
\* is r: the keys of both, u's value for every key of u, s's for the others
ShallowMerge(s, u, r) ==
    /\ IsObject(r)
    /\ DOMAIN r.val = (DOMAIN s.val) \cup (DOMAIN u.val)
    /\ \A k \in DOMAIN u.val : r.val[k] = u.val[k]
    /\ \A k \in (DOMAIN s.val) \ (DOMAIN u.val) : r.val[k] = s.val[k]

\* C14: a successful update_node_properties or update_edge_properties with
\* patch u on a stored document s leaves a document whose keys are those of
\* s and of u, where every key of u has u's value (an object or a null
\* replaces the stored value whole, no key is removed) and every other key
\* of s keeps its value; so {a:1} and then {b:2} leave a = 1 and b = 2.
C14_ShallowMerge ==
    \A p \in Callers :
        /\ Returned(p, "update_node_properties") /\ ret[p] = OkUnit =>
            /\ call[p].node_id \in DOMAIN PreNodes \cap DOMAIN nodes
            /\ ShallowMerge(PreNodes[call[p].node_id].properties,
                            call[p].properties_to_update,
                            nodes[call[p].node_id].properties)
        /\ Returned(p, "update_edge_properties") /\ ret[p] = OkUnit =>
            /\ call[p].edge_id \in DOMAIN PreEdges \cap DOMAIN edges
            /\ ShallowMerge(PreEdges[call[p].edge_id].properties,
                            call[p].properties_to_update,
                            edges[call[p].edge_id].properties)

\* an edge whose document had a = 1 has been updated with {b:2} and has a = 1
\* and b = 2
C14_Witness ==
    \E p \in Callers :
        /\ Returned(p, "update_edge_properties") /\ ret[p] = OkUnit
        /\ call[p].properties_to_update = Obj([k \in {"b"} |-> Num(2)])
        /\ PreEdges[call[p].edge_id].properties = Obj([k \in {"a"} |-> Num(1)])
        /\ edges[call[p].edge_id].properties = Obj([k \in {"a", "b"} |->
                                                    IF k = "a" THEN Num(1) ELSE Num(2)])

\* an update of a stored entity with this document and this patch is refused
Refused(properties, update) == ~IsObject(update) \/ ~IsObject(properties)

\* C15: update_node_properties and update_edge_properties fail with NotFound
\* when the id is not stored; on a stored entity they fail with InvalidInput
\* when the patch is no object or the stored document is no object (also
\* when the patch is a non-empty object); after each of these failures the
\* tables are as they were, the entity's updated_at included.
C15_UpdateFailures ==
    \A p \in Callers :
        /\ Returned(p, "update_node_properties") =>
            LET id == call[p].node_id IN
                /\ id \notin DOMAIN PreNodes => ret[p] = NotFound /\ store = pre
                /\ id \in DOMAIN PreNodes
                    /\ Refused(PreNodes[id].properties, call[p].properties_to_update)
                        => ret[p] = InvalidInput /\ store = pre
        /\ Returned(p, "update_edge_properties") =>
            LET id == call[p].edge_id IN
                /\ id \notin DOMAIN PreEdges => ret[p] = NotFound /\ store = pre
                /\ id \in DOMAIN PreEdges
                    /\ Refused(PreEdges[id].properties, call[p].properties_to_update)
                        => ret[p] = InvalidInput /\ store = pre

\* an update with the patch {a:1} has been refused for a node stored earlier
\* whose document is no object
C15_Witness ==
    \E p \in Callers :
        /\ Returned(p, "update_node_properties") /\ ret[p] = InvalidInput
        /\ call[p].properties_to_update = Obj([k \in {"a"} |-> Num(1)])
        /\ ~IsObject(PreNodes[call[p].node_id].properties)
        /\ PreNodes[call[p].node_id].updated_at < clock

\* index adj is index old with edge id e taken out of the entry of node n,
\* every entry being kept and the other members of each entry too
OnlyRemoved(adj, old, n, e) ==
    /\ DOMAIN adj = DOMAIN old
    /\ \A m \in DOMAIN old : adj[m] = IF m = n THEN old[m] \ {e} ELSE old[m]

\* C16: delete_edge(id) on a stored edge succeeds, removes the edge from the
\* edge table, its id from the outgoing entry of its source and from the
\* incoming entry of its target, and leaves the node table, every other
\* edge, and every other member of every adjacency entry as they were;
\* delete_edge of an id that is not stored fails with NotFound and changes
\* nothing.
C16_DeleteEdgeFrame ==
    \A p \in Callers :
        Returned(p, "delete_edge") =>
            LET id == call[p].edge_id IN
                IF id \in DOMAIN PreEdges
                THEN /\ ret[p] = OkUnit
                     /\ DOMAIN edges = (DOMAIN PreEdges) \ {id}
                     /\ \A e \in DOMAIN edges : edges[e] = PreEdges[e]
                     /\ nodes = PreNodes
                     /\ OnlyRemoved(adj_outgoing, PreOutgoing, PreEdges[id].source_node_id, id)
                     /\ OnlyRemoved(adj_incoming, PreIncoming, PreEdges[id].target_node_id, id)
                ELSE ret[p] = NotFound /\ store = pre

\* delete_edge has removed one of two edges that leave the same node
C16_Witness ==
    \E p \in Callers :
        /\ Returned(p, "delete_edge") /\ ret[p] = OkUnit
        /\ \E e \in DOMAIN edges :
            /\ edges[e].source_node_id = PreEdges[call[p].edge_id].source_node_id
            /\ e \in IndexGet(adj_outgoing, edges[e].source_node_id)

\* C17: run alone, delete_node(id) for an id that is not in the node table
\* fails with NotFound and leaves the node table, the edge table and both
\* adjacency indices as they were.
C17_DeleteAbsentNode ==
    \A p \in Callers :
        Returned(p, "delete_node") /\ call[p].node_id \notin DOMAIN PreNodes =>
            ret[p] = NotFound /\ store = pre

\* delete_node has returned for an id that is not stored, the store holding
\* an edge
C17_Witness ==
    \E p \in Callers :
        /\ Returned(p, "delete_node")
        /\ call[p].node_id \notin DOMAIN PreNodes
        /\ DOMAIN PreEdges # {}

\* caller p runs delete_node and is between two of its critical sections:
\* about to take the next collected edge, or waiting for the edge table or
\* the node table
BetweenDeletions(p) ==
    call[p].op = "delete_node" /\ pc[p] \in {"dn_loop", "de_lock_edges", "dn_lock_nodes"}

\* C18: delete_node is not one critical section: between the deletion of
\* one collected edge and the next, and before the removal of the node, it
\* holds no mutex, and it removes the node only after the last collected
\* edge, so a state with the node stored and some but not all of its edges
\* removed is reachable and a concurrent reader can run in it (C18_Witness).
C18_CascadeNotAtomic ==
    \A p \in Callers :
        /\ BetweenDeletions(p) => \A l \in Locks : holder[l] # p
        /\ call[p].op = "delete_node" /\ pc[p] \in {"dn_lock_nodes", "dn_remove"}
            => loc[p].todo = {}

\* delete_node(n) has removed one of the two edges of n and not yet the
\* other, n is in the node table, and a get_edges_by_node_id(n, "both")
\* invoked in this very state (pre, the tables at the last invocation, are
\* the tables now, without the removed edge) has returned the other edge only
C18_Witness ==
    \E p, q \in Callers :
        /\ call[p].op = "delete_node" /\ pc[p] = "dn_loop"
        /\ call[p].node_id \in DOMAIN nodes
        /\ loc[p].edge_id # "" /\ loc[p].edge_id \notin DOMAIN edges
        /\ loc[p].todo # {} /\ loc[p].todo \subseteq DOMAIN edges
        /\ Returned(q, "get_edges_by_node_id") /\ call[q].node_id = call[p].node_id
        /\ pre = store
        /\ Result(q) = SetToBag({edges[e] : e \in loc[p].todo})

\* node has key k in its properties document, with value v
HasProperty(node, k, v) ==
    /\ node.properties.kind = "object"
    /\ k \in DOMAIN node.properties.val
    /\ node.properties.val[k] = v

\* C19: get_nodes_by_type_and_property(t, k, v) returns, as a success,
\* exactly the stored nodes of type t whose properties document has key k
\* with a value equal to v; a node without key k, or whose properties are no
\* object, is not returned, also when v is null; the call changes nothing.
C19_FilterByTypeAndProperty ==
    \A p \in Callers :
        Returned(p, "get_nodes_by_type_and_property") =>
            /\ ret[p].kind = "Ok"
            /\ ret[p].val[1] =
                {PreNodes[i] : i \in {x \in DOMAIN PreNodes :
                    /\ PreNodes[x].node_type = call[p].node_type
                    /\ HasProperty(PreNodes[x], call[p].property_key, call[p].property_value)}}
            /\ store = pre

\* a query for the value null has returned a node whose key holds null, and
\* not a stored node of the same type that has no such key
C19_Witness ==
    \E p \in Callers :
        /\ Returned(p, "get_nodes_by_type_and_property")
        /\ call[p].property_value = Null
        /\ ret[p].val[1] # {}
        /\ \E i \in DOMAIN PreNodes :
            /\ PreNodes[i].node_type = call[p].node_type
            /\ PreNodes[i] \notin ret[p].val[1]

\* C20: query_cypher fails with Unsupported, whatever the query, the
\* parameters and the state of the store, and changes none of the four tables.
C20_CypherUnsupported ==
    \A p \in Callers :
        Returned(p, "query_cypher") => ret[p] = Unsupported /\ store = pre

\* query_cypher has returned for an empty query with parameters, on a store
\* that holds an edge
C20_Witness ==
    \E p \in Callers :
        /\ Returned(p, "query_cypher")
        /\ call[p].query = "" /\ call[p].params # <<>>
        /\ DOMAIN PreEdges # {}

----------------------------------------------------------------------------
(* Properties of extract_from_text *)

\* extract_from_text has returned a success to caller p
Extracted(p) == Returned(p, "extract_from_text") /\ ret[p].kind = "Ok"
\* the pairs, the nodes and the edges it returned
Pairs(p) == ret[p].val[1]
ReturnedNodes(p) == {Pairs(p)[i][1] : i \in DOMAIN Pairs(p)}
ReturnedEdges(p) == UNION {{Pairs(p)[i][2][j] : j \in DOMAIN Pairs(p)[i][2]} : i \in DOMAIN Pairs(p)}
\* the entities and relations of the response
Entities(p) == loc[p].data.entities
Relations(p) == loc[p].data.relations
EntityNames(p) == {Entities(p)[i].name : i \in DOMAIN Entities(p)}
DistinctNames(p) == Cardinality(EntityNames(p)) = Len(Entities(p))
\* the relations whose two names are names of entities of the response
Resolvable(p) ==
    {i \in DOMAIN Relations(p) :
        /\ Relations(p)[i].source_entity_name \in EntityNames(p)
        /\ Relations(p)[i].target_entity_name \in EntityNames(p)}
\* node is the node of an entity named name
NodeOf(node, name) == ValueGet(node.properties, "name") = Some(Str(name))

\* C21 (as claimed): for a response whose entities have distinct names,
\* extract_from_text returns one node per entity, of the mapped type, and one
\* edge per relation whose two names are entity names, from the node of the
\* source name to the node of the target name.
C21_NodePerEntity ==
    \A p \in Callers :
        Extracted(p) /\ DistinctNames(p) =>
            /\ Cardinality(ReturnedNodes(p)) = Len(Entities(p))
            /\ \A i \in DOMAIN Entities(p) :
                \E node \in ReturnedNodes(p) :
                    /\ node = loc[p].nodes_map[Entities(p)[i].name]
                    /\ node.node_type = map_str_to_nodetype(Entities(p)[i].entity_type)
            /\ Cardinality(ReturnedEdges(p)) = Cardinality(Resolvable(p))
            /\ \A i \in Resolvable(p) :
                \E edge \in ReturnedEdges(p), s, t \in ReturnedNodes(p) :
                    /\ s = loc[p].nodes_map[Relations(p)[i].source_entity_name]
                    /\ t = loc[p].nodes_map[Relations(p)[i].target_entity_name]
                    /\ edge.source_node_id = s.id
                    /\ edge.target_node_id = t.id
                    /\ edge.edge_type = map_str_to_edgetype(Relations(p)[i].relation_type)

\* the response of caller p's extraction has parsed
Parsed(p) == Returned(p, "extract_from_text") /\ Parses(loc[p].response)

\* C22 (as claimed): a relation that names no entity of the response at one
\* of its ends is dropped and the call does not fail: it succeeds, returns
\* one edge per resolvable relation and none for the others, and returns
\* every entity of the response as a node.
C22_DroppedRelationKeepsEntities ==
    \A p \in Callers :
        Parsed(p) /\ Resolvable(p) # DOMAIN Relations(p) =>
            /\ Extracted(p)
            /\ Cardinality(ReturnedEdges(p)) = Cardinality(Resolvable(p))
            /\ \A i \in Resolvable(p) :
                \E edge \in ReturnedEdges(p) :
                    /\ edge.source_node_id =
                        loc[p].nodes_map[Relations(p)[i].source_entity_name].id
                    /\ edge.target_node_id =
                        loc[p].nodes_map[Relations(p)[i].target_entity_name].id
            /\ \A name \in EntityNames(p) :
                loc[p].nodes_map[name] \in ReturnedNodes(p)

\* the text is no JSON, or no object with the keys entities and relations
Malformed(text) ==
    \/ text = NotJson
    \/ ~IsObject(text)
    \/ "entities" \notin DOMAIN text.val
    \/ "relations" \notin DOMAIN text.val

\* C23: one extract_from_text call awaits the collaborator once; when the
\* collaborator fails the call returns UpstreamFailure and has parsed
\* nothing; when the response text is no JSON or lacks the key entities or
\* relations the call returns ParseFailure; a failed call has built no node
\* and no edge, and the tables of the store are as they were.
C23_FailuresAreTerminal ==
    \A p \in Callers :
        Returned(p, "extract_from_text") =>
            /\ loc[p].completions = 1
            /\ loc[p].completion = CompletionFailed =>
                ret[p] = UpstreamFailure /\ loc[p].data = NoLocals.data
            /\ loc[p].completion # CompletionFailed /\ Malformed(loc[p].completion.val[1]) =>
                ret[p] = ParseFailure
            /\ ret[p].kind = "Err" =>
                /\ ret[p] \in {UpstreamFailure, ParseFailure}
                /\ loc[p].nodes_map = NoLocals.nodes_map
                /\ loc[p].all_edges = NoLocals.all_edges
                /\ store = pre

\* an extraction has returned ParseFailure for a response that lists
\* relations and has no key entities
C23_Witness ==
    \E p \in Callers :
        /\ Returned(p, "extract_from_text") /\ ret[p] = ParseFailure
        /\ IsObject(loc[p].response)
        /\ DOMAIN loc[p].response.val = {"relations"}

\* NodeType and EdgeType, lib.rs 8-39 and 42-79
NodeTypeNames ==
    {"Agent", "User", "Session", "Tool", "ToolCall", "ReasoningTrace", "Feedback",
     "File", "WebResource", "Directory", "Message", "Concept", "Skill", "Plan",
     "PlanStep", "ExternalEntity", "SoftwarePackage", "ApiEndpoint", "Generic"}
EdgeTypeNames ==
    {"Initiated", "BelongsToSession", "ExecutedByUser", "ExecutedByAgent",
     "PartOfPlan", "NextStep", "Triggers", "HasCapability", "UsesTool",
     "RecommendsTool", "Mentions", "ReferencesFile", "ReferencesResource",
     "OutputFile", "InputTo", "OutputFrom", "HasKnowledgeAbout", "LearnedFrom",
     "RelatedTo", "InstanceOf", "SubConceptOf", "ProvidesFeedbackOn",
     "AssociatedWith", "ContainsFile", "ParentDirectory"}

\* strings a and b differ in the case of letters at most
SameLetters(a, b) ==
    /\ DOMAIN a = DOMAIN b
    /\ \A i \in DOMAIN a : BothCases(a[i]) \cap BothCases(b[i]) # {}

\* type is what a mapping with these arms and this default owes string s
Mapped(arms, default, s, type) ==
    /\ \A arm \in arms : SameLetters(arm[1], s) => type = arm[2]
    /\ (\A arm \in arms : ~SameLetters(arm[1], s)) => type = default

\* C24: map_str_to_nodetype returns a NodeType for every string, the same
\* for every spelling of the string in another letter case, the type of the
\* table for a string of the table, and Generic for every other string;
\* map_str_to_edgetype likewise returns an EdgeType, with RelatedTo for
\* every string outside its table; neither fails.
C24_MappingsTotal ==
    \A p \in Callers :
        /\ Returned(p, "map_str_to_nodetype") =>
            /\ ret[p].kind = "Ok"
            /\ ret[p].val[1] \in NodeTypeNames
            /\ Mapped(NodeTypeArms, "Generic", call[p].s, ret[p].val[1])
            /\ \A t \in TypeStrings :
                SameLetters(t, call[p].s) => map_str_to_nodetype(t) = ret[p].val[1]
        /\ Returned(p, "map_str_to_edgetype") =>
            /\ ret[p].kind = "Ok"
            /\ ret[p].val[1] \in EdgeTypeNames
            /\ Mapped(EdgeTypeArms, "RelatedTo", call[p].s, ret[p].val[1])
            /\ \A t \in TypeStrings :
                SameLetters(t, call[p].s) => map_str_to_edgetype(t) = ret[p].val[1]

\* map_str_to_nodetype has returned Plan for a spelling of task with capitals
\* and small letters
C24_Witness ==
    \E p \in Callers :
        /\ Returned(p, "map_str_to_nodetype") /\ ret[p] = Ok("Plan")
        /\ call[p].s # ToLowercase(call[p].s)
        /\ \E i \in DOMAIN call[p].s : call[p].s[i] = ToLowercase(call[p].s)[i]

----------------------------------------------------------------------------
(* The order of the mutexes *)

\* the order in which the operations nest the mutexes
LockOrder == <<"edges", "nodes", "adj_outgoing", "adj_incoming">>
Rank(l) == CHOOSE i \in DOMAIN LockOrder : LockOrder[i] = l

\* caller p acquires mutex l in this step
Acquires(p, l) == holder[l] # p /\ holder'[l] = p

\* C25: the four mutexes are totally ordered (edges, nodes, adj_outgoing,
\* adj_incoming) and, in every operation, whenever a caller acquires a mutex
\* while it still holds another, the held one precedes the acquired one.
C25_LockOrder ==
    [][\A p \in Callers : \A l \in Locks :
            Acquires(p, l) =>
                \A h \in Locks : holder[h] = p => Rank(h) < Rank(l)]_vars

\* add_edge holds edges and nodes at once
C25_Witness ==
    \E p \in Callers :
        /\ call[p].op = "add_edge"
        /\ holder["edges"] = p /\ holder["nodes"] = p

\* C26 (as claimed): every edge returned by a successful extraction runs
\* between returned nodes, so that add_node of every returned node followed by
\* add_edge of every returned edge succeeds on an empty store.
C26_ReturnedEdgesInsertable ==
    \A p \in Callers :
        Extracted(p) =>
            \A edge \in ReturnedEdges(p) :
                /\ edge.source_node_id \in {node.id : node \in ReturnedNodes(p)}
                /\ edge.target_node_id \in {node.id : node \in ReturnedNodes(p)}

\* the resolvable relations of the response, in the order of the response
Resolved(p) == SelectSeq(Relations(p),
    LAMBDA relation : /\ relation.source_entity_name \in EntityNames(p)
                      /\ relation.target_entity_name \in EntityNames(p))

\* edge is an edge for relation, between the nodes the batch holds for its
\* two names
EdgeOf(p, edge, relation) ==
    /\ edge.edge_type = map_str_to_edgetype(relation.relation_type)
    /\ edge.source_node_id = loc[p].nodes_map[relation.source_entity_name].id
    /\ edge.target_node_id = loc[p].nodes_map[relation.target_entity_name].id

C27_NoEntity ==
    \E p \in Callers :
        Extracted(p) /\ Entities(p) = <<>> /\ Relations(p) # <<>> /\ Pairs(p) = <<>>

----------------------------------------------------------------------------
(* The frame of the updates *)

\* table equals old but for the fields properties and updated_at of entry id
OnlyUpdated(table, old, id) ==
    /\ DOMAIN table = DOMAIN old
    /\ \A k \in DOMAIN old :
        IF k = id
        THEN \A field \in (DOMAIN old[k]) \ {"properties", "updated_at"} :
                table[k][field] = old[k][field]
        ELSE table[k] = old[k]

\* C28: a successful update_node_properties(id, patch) leaves unchanged the
\* id, node_type, labels and created_at of node id, every other node, the edge
\* table and both adjacency indices; a successful update_edge_properties
\* leaves unchanged the id, source, target, type and created_at of that edge,
\* every other edge, the node table and both adjacency indices.
C28_UpdateFrame ==
    \A p \in Callers :
        /\ Returned(p, "update_node_properties") /\ ret[p] = OkUnit =>
            /\ OnlyUpdated(nodes, PreNodes, call[p].node_id)
            /\ {"id", "node_type", "labels", "created_at"} \subseteq
                    DOMAIN nodes[call[p].node_id]
            /\ edges = PreEdges
            /\ adj_outgoing = PreOutgoing /\ adj_incoming = PreIncoming
        /\ Returned(p, "update_edge_properties") /\ ret[p] = OkUnit =>
            /\ OnlyUpdated(edges, PreEdges, call[p].edge_id)
            /\ {"id", "source_node_id", "target_node_id", "edge_type", "created_at"}
                    \subseteq DOMAIN edges[call[p].edge_id]
            /\ nodes = PreNodes
            /\ adj_outgoing = PreOutgoing /\ adj_incoming = PreIncoming

\* one of two nodes joined by an edge has been updated: its properties and
\* its updated_at have changed
C28_Witness ==
    \E p \in Callers :
        /\ Returned(p, "update_node_properties") /\ ret[p] = OkUnit
        /\ Cardinality(DOMAIN nodes) = 2 /\ DOMAIN edges # {}
        /\ nodes[call[p].node_id].properties # PreNodes[call[p].node_id].properties
        /\ nodes[call[p].node_id].updated_at # PreNodes[call[p].node_id].updated_at

----------------------------------------------------------------------------
(* Two callers at once *)

\* callers p and q have both returned from operation op
BothReturned(p, q, op) == p # q /\ Returned(p, op) /\ Returned(q, op)

\* p and q have both returned from update_node_properties on node id, stored
\* when they were invoked, with patches over disjoint sets of keys
DisjointUpdates(p, q, id) ==
    /\ BothReturned(p, q, "update_node_properties")
    /\ call[p].node_id = id /\ call[q].node_id = id
    /\ id \in DOMAIN PreNodes
    /\ IsObject(call[p].properties_to_update) /\ IsObject(call[q].properties_to_update)
    /\ DOMAIN call[p].properties_to_update.val
            \cap DOMAIN call[q].properties_to_update.val = {}

\* both calls succeeded and the properties of node id hold every key of both
\* patches with the patched value and every earlier key with its value
BothKept(p, q, id) ==
    /\ ret[p] = OkUnit /\ ret[q] = OkUnit
    /\ IsObject(PreNodes[id].properties) /\ IsObject(nodes[id].properties)
    /\ LET before == PreNodes[id].properties.val
           after == nodes[id].properties.val
           up == call[p].properties_to_update.val
           uq == call[q].properties_to_update.val IN
        /\ DOMAIN after = DOMAIN before \cup DOMAIN up \cup DOMAIN uq
        /\ \A k \in DOMAIN up : after[k] = up[k]
        /\ \A k \in DOMAIN uq : after[k] = uq[k]
        /\ \A k \in DOMAIN before \ (DOMAIN up \cup DOMAIN uq) : after[k] = before[k]

\* C29 (as claimed): two concurrent update_node_properties on the same
\* existing node with patches over disjoint key sets both succeed, and the
\* final properties hold every key of both patches with the patched values,
\* together with the untouched earlier keys.
C29_DisjointUpdatesKept ==
    \A p, q \in Callers : \A id \in NodeIds :
        DisjointUpdates(p, q, id) => BothKept(p, q, id)

\* C29 (amended): the same, for an existing node whose stored properties
\* are a JSON object.
C29_DisjointUpdatesKeptOnObject ==
    \A p, q \in Callers : \A id \in NodeIds :
        DisjointUpdates(p, q, id) /\ IsObject(PreNodes[id].properties) =>
            BothKept(p, q, id)

\* a node with a = 1 has been updated by one caller with {b:2} and by the
\* other with {c:3}, and holds a, b and c
C29_Witness ==
    \E p, q \in Callers :
        /\ DisjointUpdates(p, q, "n1")
        /\ PreNodes["n1"].properties = Obj([k \in {"a"} |-> Num(1)])
        /\ call[p].properties_to_update = Obj([k \in {"b"} |-> Num(2)])
        /\ call[q].properties_to_update = Obj([k \in {"c"} |-> Num(3)])
        /\ DOMAIN nodes["n1"].properties.val = {"a", "b", "c"}

\* the id is a member of the entry of node n and of no other entry of adj
OnlyUnder(adj, id, n) ==
    /\ n \in DOMAIN adj
    /\ \A m \in DOMAIN adj : id \in adj[m] <=> m = n

\* p and q have both returned from add_node of one node id that was not
\* stored when they were invoked
RacingNodes(p, q) ==
    /\ BothReturned(p, q, "add_node")
    /\ call[p].node.id = call[q].node.id
    /\ call[p].node.id \notin DOMAIN PreNodes

\* p and q have both returned from add_edge of one edge id that was not
\* stored when they were invoked, between nodes that were
RacingEdges(p, q) ==
    /\ BothReturned(p, q, "add_edge")
    /\ call[p].edge.id = call[q].edge.id
    /\ call[p].edge.id \notin DOMAIN PreEdges
    /\ {call[p].edge.source_node_id, call[p].edge.target_node_id,
        call[q].edge.source_node_id, call[q].edge.target_node_id} \subseteq DOMAIN PreNodes

\* C30: of two concurrent add_node calls with the same fresh node id exactly
\* one succeeds, the other fails with Conflict, and the stored node is the
\* one of the call that succeeded; of two concurrent add_edge calls with the
\* same fresh edge id between existing nodes exactly one succeeds, the other
\* fails with Conflict, the stored edge is the one of the call that
\* succeeded, and the indices hold the id under its source and its target
\* and under no other node.
C30_SingleWinner ==
    \A p, q \in Callers :
        /\ RacingNodes(p, q) =>
            \E w \in {p, q} : \E l \in {p, q} \ {w} :
                /\ ret[w] = OkUnit /\ ret[l] = Conflict
                /\ call[w].node.id \in DOMAIN nodes
                /\ nodes[call[w].node.id] = call[w].node
        /\ RacingEdges(p, q) =>
            \E w \in {p, q} : \E l \in {p, q} \ {w} :
                /\ ret[w] = OkUnit /\ ret[l] = Conflict
                /\ call[w].edge.id \in DOMAIN edges
                /\ edges[call[w].edge.id] = call[w].edge
                /\ OnlyUnder(adj_outgoing, call[w].edge.id, call[w].edge.source_node_id)
                /\ OnlyUnder(adj_incoming, call[w].edge.id, call[w].edge.target_node_id)

\* two callers have added edge e1 at once, one from n1 to n2 and one from n2
\* to n1, the second to take the edges mutex after the first had taken it
C30_Witness ==
    \E p, q \in Callers :
        /\ RacingEdges(p, q)
        /\ call[p].edge.source_node_id = "n1" /\ call[p].edge.target_node_id = "n2"
        /\ call[q].edge.source_node_id = "n2" /\ call[q].edge.target_node_id = "n1"
        /\ ret[p] = OkUnit /\ ret[q] = Conflict

\* two callers have added node n1 at once, one as a Tool and one as a
\* Concept, and the Concept is stored
C30_RacingNodes ==
    \E p, q \in Callers :
        /\ RacingNodes(p, q)
        /\ call[p].node.node_type = "Tool" /\ call[q].node.node_type = "Concept"
        /\ ret[q] = OkUnit /\ nodes["n1"].node_type = "Concept"

----------------------------------------------------------------------------
(* The view of a concurrent reader *)

\* C31 (as claimed): what get_edges_by_node_id returns next to add_edge and
\* delete_edge calls of other callers is the set of the edges of the edge
\* table incident to the node, in the requested direction, at one instant
\* between its invocation and its return. With at most one change of the
\* edge table in between, the instants are the table at the invocation and
\* the table now.
C31_PointInTimeView ==
    \A p \in Callers :
        Returned(p, "get_edges_by_node_id") =>
            /\ ret[p].kind = "Ok"
            /\ Result(p) \in
                {SetToBag(Matching(PreEdges, call[p].node_id, call[p].direction)),
                 SetToBag(Matching(edges, call[p].node_id, call[p].direction))}

----------------------------------------------------------------------------
(* The documents of extracted nodes and edges *)

\* the edges extract_from_text has built
BuiltEdges(p) == {loc[p].all_edges[i] : i \in DOMAIN loc[p].all_edges}

\* C32 (as claimed): every edge extract_from_text builds has an object for
\* its properties, whether or not its relation lists properties, so that
\* update_edge_properties with an object patch is not refused for the
\* stored edge.
C32_EdgeDocumentsAreObjects ==
    \A p \in Callers :
        Extracted(p) =>
            \A edge \in BuiltEdges(p) :
                /\ IsObject(edge.properties)
                /\ ~Refused(edge.properties, Obj(EmptyMap))

\* the nodes extract_from_text has built, by entity name
BuiltNodes(p) == loc[p].nodes_map

\* C33 (as claimed): every node extract_from_text builds has an object for
\* its properties, and the key name of it holds the name of its entity as
\* the response lists it, also when the entity's own properties have a key
\* name.
C33_NameIsEntityName ==
    \A p \in Callers :
        Extracted(p) =>
            \A name \in DOMAIN BuiltNodes(p) :
                /\ IsObject(BuiltNodes(p)[name].properties)
                /\ NodeOf(BuiltNodes(p)[name], name)

\* the index of the last entity of the response with this name
LastNamed(p, name) ==
    CHOOSE i \in DOMAIN Entities(p) :
        /\ Entities(p)[i].name = name
        /\ \A j \in DOMAIN Entities(p) : Entities(p)[j].name = name => j <= i

\* node is a node built from entity: its type is the mapped type, its id the
\* provided id or an urn of the entity's type, its document the entity's
BuiltFrom(node, entity) ==
    /\ node.node_type = map_str_to_nodetype(entity.entity_type)
    /\ node.properties = EntityProperties(entity)
    /\ IF entity.id = None
       THEN \E n \in 1..MaxEntities : node.id = EntityUrn(entity.entity_type, n)
       ELSE node.id = ProvidedId(entity.id[1])

\* C34: the batch holds one node per distinct entity name, the node built
\* from the last entity listed with that name (the ids drawn for the earlier
\* ones are in no node), and every edge of a resolvable relation runs from
\* the id of the node held for its source name to the id of the node held
\* for its target name.
C34_LastEntityWins ==
    \A p \in Callers :
        Extracted(p) =>
            /\ DOMAIN BuiltNodes(p) = EntityNames(p)
            /\ Cardinality(DOMAIN BuiltNodes(p)) = Cardinality(EntityNames(p))
            /\ \A name \in EntityNames(p) :
                LET last == Entities(p)[LastNamed(p, name)]
                    node == BuiltNodes(p)[name] IN
                    /\ BuiltFrom(node, last)
                    /\ last.id = None =>
                        node.id = EntityUrn(last.entity_type,
                            Cardinality({j \in 1..LastNamed(p, name) :
                                            Entities(p)[j].id = None}))
            /\ Len(loc[p].all_edges) = Len(Resolved(p))
            /\ \A i \in DOMAIN Resolved(p) :
                EdgeOf(p, loc[p].all_edges[i], Resolved(p)[i])

\* a response has listed Alice twice, as a Person and then as a Widget, and
\* a relation from Alice: the batch holds the Generic node, with the second
\* id drawn, and the edge leaves that node
C34_Witness ==
    \E p \in Callers :
        /\ Extracted(p)
        /\ Len(Entities(p)) = 2 /\ EntityNames(p) = {"Alice"}
        /\ Entities(p)[1].entity_type = TypePerson
        /\ Entities(p)[2].entity_type = TypeWidget
        /\ BuiltNodes(p)["Alice"].node_type = "Generic"
        /\ BuiltNodes(p)["Alice"].id = EntityUrn(TypeWidget, 2)
        /\ \E edge \in BuiltEdges(p) : edge.source_node_id = EntityUrn(TypeWidget, 2)

----------------------------------------------------------------------------
(* get_edges_by_node_id with a direction it does not know *)

\* C35: get_edges_by_node_id with a direction string other than outgoing,
\* incoming and both, such as Outgoing, succeeds with the empty list for
\* every node id, also for a node with incident edges, and leaves the four
\* tables as they were.
C35_UnknownDirectionIsEmpty ==
    \A p \in Callers :
        Returned(p, "get_edges_by_node_id")
            /\ call[p].direction \notin {"outgoing", "incoming", "both", NoDirection} =>
                /\ ret[p].kind = "Ok"
                /\ Result(p) = EmptyBag
                /\ store = pre

\* get_edges_by_node_id(n1, "Outgoing") has returned the empty list for a
\* node with an outgoing edge
C35_Witness ==
    \E p \in Callers :
        /\ Returned(p, "get_edges_by_node_id")
        /\ call[p].direction = "Outgoing"
        /\ call[p].node_id \in DOMAIN PreNodes
        /\ Matching(PreEdges, call[p].node_id, "outgoing") # {}
        /\ ret[p].kind = "Ok" /\ Result(p) = EmptyBag

====
